---- MODULE Spec2Model ----
(***************************************************************************)
(* Model of the job_scanner crawl / dedupe / filter pipeline.              *)
(*                                                                         *)
(* Text is modelled as a sequence of tokens.  A token is one character,    *)
(* except "utm_" (the four characters of the tracking prefix) and "%26"    *)
(* (a percent-encoded ampersand), which are kept as one token each.        *)
(***************************************************************************)
EXTENDS Integers, Sequences, FiniteSets, TLC

(***************************************************************************)
(* Bounds of the model.                                                    *)
(***************************************************************************)
MaxUrlLen == 5
MaxTitleLen == 2
MaxBodyLen == 3
MaxListing == 2
MaxPages == 2
MaxLinkLen == 3
MaxJobs == 3
MaxChunks == 6
MaxSheetRows == 4
MaxPulls == 3
MaxReplies == 3
MaxReplyLen == 6
MaxTextLen == 7
MaxWindow == 5
MaxElements == 4

VARIABLES
    \* ---- identity harness: two URLs and the ids derived from them
    url1,        \* the first URL (text after "https://")
    url2,        \* a URL that differs from url1 by one tolerated variation
    variation,   \* which variation produced url2
    id1,         \* job_id_from_url(url1), or NoId before it is computed
    id2,         \* job_id_from_url(url2), or NoId before it is computed
    \* ---- one call of matches_job_interest
    argTitle,          \* the job_title argument as passed
    argText,           \* the text argument as passed
    keywords_include,
    keywords_exclude,
    mainModule,        \* the module run as __main__; pprint is bound in that module only
    job_title,         \* local job_title
    text,              \* local text
    mpc,               \* position in matches_job_interest
    mresult,           \* "True", "False", or the exception raised
    \* ---- one call of a fetcher function
    fetcher,       \* "access_webpage", "access_html_webpage" or "access_json_api"
    fpc,           \* position in the fetcher
    retriesLeft,   \* what is left of Retry.total for the session.get in progress
    getCount,      \* session.get calls issued by the fetcher so far
    response1,     \* what the first session.get returned
    response2,     \* what the second session.get returned
    netError,      \* a session.get raised a network exception
    fresult,       \* what the fetcher call ended with
    \* ---- a process that calls one scraper, up to twice
    site,              \* the scraper the process calls
    listing,           \* what the site lists: anchors of the page, or cards of a page
    callerSeen,        \* the caller's set of known job ids
    gamejobsDefault,   \* the set object that is scrape_gamejobs's default job_ids_used
    hitmarkerDefault,  \* the set object that is scrape_hitmarker_jobs's default job_ids_used
    callNo,            \* "none", "first" or "second": the call in progress or last made
    spc,               \* position in the scraper
    seenRef,           \* the set object job_ids_used is bound to in this call
    limit,             \* scrape_gamejobs's limit argument
    pages,             \* the pages argument
    page,              \* pages gone through by the page loop
    idx,               \* next anchor of the listing
    jobs,              \* the local list jobs
    seenAtStart,       \* history: the value of the seen-set when the call started
    requested,         \* history: page fetches issued by this call
    fetchFailed,       \* history: a page fetch of this call gave None, an error status or raised
    prev,              \* history: the call before this one
    slept,             \* time.sleep was called since the last page fetch
    unslept,           \* history: a page fetch followed the one before it with no sleep between
    browser,           \* the Chromium browser of scrape_gamejobs: "none", "open" or "closed"
    waited,            \* history: how the wait in _wait_for_job_list ended in this call
    \* ---- the manual-entry form (ManuallyEnteredDataUI)
    google_url_line_edit,  \* self.google_url_line_edit
    creds_path,            \* self.creds_path and self.scopes are set
    link_input,            \* the text of the Link field
    formPc,                \* "idle", "warned" (returned after a warning) or "sent"
    formUrl,               \* local url: what job_id_from_url was given
    formRow,               \* the row sent to update_google_sheet
    \* ---- one call of rate_job_posts
    job_links,                 \* the argument job_links
    rpc,                       \* position in rate_job_posts
    ridx,                      \* index of the next job of the for loop
    upload_to_google_sheets,   \* the local list of output rows
    ranked,                    \* history: indices of the jobs that reached line 145
    \* ---- one call of rate_job_vs_cv
    cv_chunks,         \* the argument cv_chunks, each chunk with what the provider does for it
    lpc,               \* position in rate_job_vs_cv
    results,           \* the local list results
    llm_calls,         \* history: calls of llm_client.chat.completions.create
    cooldown,          \* history: seconds slept by compare_chunk_with_job
    llm_result_dict,   \* what rate_job_vs_cv returned
    \* ---- the scraped_data tab of the Google sheet and the pulls from it
    sheet,             \* the rows under the header row, top to bottom
    nextUid,           \* history: identity given to the next row that is written
    html_links,        \* what the last pull_google_sheet_data returned
    sheetBefore,       \* history: the sheet as the last pull found it
    pullCount,         \* history: pulls made
    pullRaised,        \* the last pull raised out of update_cell and returned nothing
    rowsWritten,       \* history: rows were written to the sheet since the last pull
    pulledJustBefore,  \* history: the last pull followed a pull that returned, no row written between
    returnedTimes,     \* history: how often each row was returned by a pull
    \* ---- one call of turn_llm_result_into_dictionary
    llm_result,        \* the argument llm_result: the reply text
    ppc,               \* "call" or "done"
    clean_results,     \* what the call returned: None, or the list of parsed objects
    \* ---- one call of chunk(text, max_chars, overlap)
    resume_text,       \* the argument text: the normalized plain text of the resume
    max_chars,         \* the argument max_chars
    overlap,           \* the argument overlap
    cpc,               \* "call" or "done"
    chunks,            \* what the call returned
    \* ---- one call of _extract_list_row_fields
    next_elements,     \* job_a.next_elements: what follows the job anchor in document order
    wpc,               \* "walk" in the loop, "done" after it
    wi,                \* index of the element the loop examines next
    steps,             \* the local steps
    examined,          \* history: elements that passed the test of the bound
    company,           \* index of the element company was taken from, 0 for None
    location,          \* index of the element location was taken from, 0 for None
    posted,            \* index of the text posted was taken from, 0 for None
    stopped            \* history: why the loop ended

urlVars == <<url1, url2, variation, id1, id2>>

matchVars == <<argTitle, argText, keywords_include, keywords_exclude, mainModule,
               job_title, text, mpc, mresult>>

fetchVars == <<fetcher, fpc, retriesLeft, getCount, response1, response2, netError, fresult>>

scrapeVars == <<site, listing, callerSeen, gamejobsDefault, hitmarkerDefault, callNo, spc,
                seenRef, limit, pages, page, idx, jobs, seenAtStart, requested,
                fetchFailed, prev, slept, unslept, browser, waited>>

manualVars == <<google_url_line_edit, creds_path, link_input, formPc, formUrl, formRow>>

\* The state of the parts that follow the scrapers.
rateVars == <<job_links, rpc, ridx, upload_to_google_sheets, ranked>>

llmVars == <<cv_chunks, lpc, results, llm_calls, cooldown, llm_result_dict>>

sheetVars == <<sheet, nextUid, html_links, sheetBefore, pullCount, pullRaised, rowsWritten,
               pulledJustBefore, returnedTimes>>

parseVars == <<llm_result, ppc, clean_results>>

chunkVars == <<resume_text, max_chars, overlap, cpc, chunks>>

walkVars == <<next_elements, wpc, wi, steps, examined, company, location, posted, stopped>>

pipelineVars == <<manualVars, rateVars, llmVars, sheetVars, parseVars, chunkVars, walkVars>>

\* Everything but one part of the pipeline.
notManual == <<urlVars, matchVars, fetchVars, scrapeVars, rateVars, llmVars, sheetVars,
    parseVars,
    chunkVars,
    walkVars>>

notRate == <<urlVars, matchVars, fetchVars, scrapeVars, manualVars, llmVars, sheetVars,
    parseVars,
    chunkVars,
    walkVars>>

notLlm == <<urlVars, matchVars, fetchVars, scrapeVars, manualVars, rateVars, sheetVars,
    parseVars,
    chunkVars,
    walkVars>>

notSheet == <<urlVars, matchVars, fetchVars, scrapeVars, manualVars, rateVars, llmVars,
    parseVars,
    chunkVars,
    walkVars>>

notParse == <<urlVars, matchVars, fetchVars, scrapeVars, manualVars, rateVars, llmVars, sheetVars,
    chunkVars,
    walkVars>>

notChunk == <<urlVars, matchVars, fetchVars, scrapeVars, manualVars, rateVars, llmVars, sheetVars, parseVars,
    walkVars>>

notWalk == <<urlVars, matchVars, fetchVars, scrapeVars, manualVars, rateVars, llmVars, sheetVars, parseVars, chunkVars>>

vars == <<urlVars, matchVars, fetchVars, scrapeVars, pipelineVars>>

(***************************************************************************)
(* Each specification below exercises one part of the program; the state   *)
(* of the parts it does not exercise stays at these idle values.           *)
(***************************************************************************)
\* The id of a URL whose id has not been computed.
NoId == [sha256 |-> <<"-">>]

UrlIdle ==
    /\ url1 = <<>>
    /\ url2 = <<>>
    /\ variation = "idle"
    /\ id1 = NoId
    /\ id2 = NoId

\* mainModule is left to the specification.
MatchIdle ==
    /\ argTitle = <<>>
    /\ argText = <<>>
    /\ keywords_include = {}
    /\ keywords_exclude = {}
    /\ job_title = <<>>
    /\ text = <<>>
    /\ mpc = "idle"
    /\ mresult = "none"

\* No response / no result yet.
NoResponse == [kind |-> "pending", status |-> 0, body |-> "-"]

FetchIdle ==
    /\ fetcher = "none"
    /\ fpc = "idle"
    /\ retriesLeft = 0
    /\ getCount = 0
    /\ response1 = NoResponse
    /\ response2 = NoResponse
    /\ netError = FALSE
    /\ fresult = NoResponse

\* No earlier call.
NoCall == [seenRef |-> "none", limit |-> 0, outcome |-> "none", returned |-> {}]

ScrapeIdle ==
    /\ site = "none"
    /\ listing = <<>>
    /\ callerSeen = {}
    /\ gamejobsDefault = {}
    /\ hitmarkerDefault = {}
    /\ callNo = "none"
    /\ spc = "idle"
    /\ seenRef = "none"
    /\ limit = 0
    /\ pages = 0
    /\ page = 0
    /\ idx = 0
    /\ jobs = <<>>
    /\ seenAtStart = {}
    /\ requested = 0
    /\ fetchFailed = FALSE
    /\ slept = FALSE
    /\ unslept = FALSE
    /\ browser = "none"
    /\ waited = "none"
    /\ prev = NoCall

\* No row sent by the form.
NoRow == [job_id |-> NoId, link |-> <<"-">>]

ManualIdle ==
    /\ google_url_line_edit = <<>>
    /\ creds_path = FALSE
    /\ link_input = <<>>
    /\ formPc = "idle"
    /\ formUrl = <<>>
    /\ formRow = NoRow

RateIdle ==
    /\ job_links = <<>>
    /\ rpc = "idle"
    /\ ridx = 0
    /\ upload_to_google_sheets = <<>>
    /\ ranked = <<>>

\* rate_job_vs_cv has returned nothing.
NoDict == [rating_vs_cv |-> -1, top_matches |-> <<>>, missing_skills |-> <<>>]

LlmIdle ==
    /\ cv_chunks = <<>>
    /\ lpc = "idle"
    /\ results = <<>>
    /\ llm_calls = 0
    /\ cooldown = 0
    /\ llm_result_dict = NoDict

SheetIdle ==
    /\ sheet = <<>>
    /\ nextUid = 1
    /\ html_links = <<>>
    /\ sheetBefore = <<>>
    /\ pullCount = 0
    /\ pullRaised = FALSE
    /\ rowsWritten = FALSE
    /\ pulledJustBefore = FALSE
    /\ returnedTimes = <<>>

\* The value of clean_results before the call has returned.
NotReturned == [is_none |-> FALSE, dicts |-> <<>>]

ParseIdle ==
    /\ llm_result = <<>>
    /\ ppc = "idle"
    /\ clean_results = NotReturned

ChunkIdle ==
    /\ resume_text = <<>>
    /\ max_chars = 0
    /\ overlap = 0
    /\ cpc = "idle"
    /\ chunks = <<>>

WalkIdle ==
    /\ next_elements = <<>>
    /\ wpc = "idle"
    /\ wi = 0
    /\ steps = 0
    /\ examined = 0
    /\ company = 0
    /\ location = 0
    /\ posted = 0
    /\ stopped = "no"

PipelineIdle ==
    /\ ManualIdle
    /\ RateIdle
    /\ LlmIdle
    /\ SheetIdle
    /\ ParseIdle
    /\ ChunkIdle
    /\ WalkIdle

(***************************************************************************)
(* Generic sequence helpers.                                               *)
(***************************************************************************)
\* All sequences over S of length at most n.
SeqsUpTo(S, n) == UNION {[1..k -> S] : k \in 0..n}

\* Position of the first occurrence of token c in s, 0 when absent.
RECURSIVE IndexFrom(_, _, _)
IndexFrom(s, c, i) ==
    IF i > Len(s) THEN 0
    ELSE IF s[i] = c THEN i
    ELSE IndexFrom(s, c, i + 1)

IndexOf(s, c) == IndexFrom(s, c, 1)

\* str.split(c, 1): the text before the first c and the text after it.
SplitFirst(s, c) ==
    LET i == IndexOf(s, c)
    IN  IF i = 0 THEN <<s, <<>>>>
        ELSE <<SubSeq(s, 1, i - 1), SubSeq(s, i + 1, Len(s))>>

\* str.split(c): every segment between occurrences of c.
RECURSIVE SplitAll(_, _)
SplitAll(s, c) ==
    LET i == IndexOf(s, c)
    IN  IF i = 0 THEN <<s>>
        ELSE <<SubSeq(s, 1, i - 1)>> \o SplitAll(SubSeq(s, i + 1, Len(s)), c)

\* str.rstrip(c)
RECURSIVE Rstrip(_, _)
Rstrip(s, c) ==
    IF Len(s) > 0 /\ s[Len(s)] = c THEN Rstrip(SubSeq(s, 1, Len(s) - 1), c)
    ELSE s

(***************************************************************************)
(* normalize_url / job_id_from_url                                         *)
(***************************************************************************)
UrlChars == {"a", "A", "/", "?", "&", "=", "utm_", "%26"}

Urls == SeqsUpTo(UrlChars, MaxUrlLen)

\* str.lower() on one token
LowerChar(c) == IF c = "A" THEN "a" ELSE c

\* str.lower()
Lower(s) == [i \in 1..Len(s) |-> LowerChar(s[i])]

\* urllib.parse.unquote on one token
UnquoteChar(c) == IF c = "%26" THEN "&" ELSE c

Unquote(s) == [i \in 1..Len(s) |-> UnquoteChar(s[i])]

\* urlparse: <<netloc and path, query, fragment>>.  The fragment is cut at the
\* first "#", then the query at the first "?".
Urlparse(u) ==
    LET f == SplitFirst(u, "#")
        q == SplitFirst(f[1], "?")
    IN  [path |-> q[1], query |-> q[2], fragment |-> f[2]]

\* parse_qsl with keep_blank_values=False: fields split on "&"; an empty field,
\* a field without "=" and a field with an empty value are dropped; names and
\* values are percent-decoded.
RECURSIVE QslOfFields(_)
QslOfFields(fields) ==
    IF fields = <<>> THEN <<>>
    ELSE LET nv   == fields[1]
             rest == QslOfFields(Tail(fields))
             i    == IndexOf(nv, "=")
         IN  IF nv = <<>> \/ i = 0 \/ i = Len(nv) THEN rest
             ELSE <<[k |-> Unquote(SubSeq(nv, 1, i - 1)),
                     v |-> Unquote(SubSeq(nv, i + 1, Len(nv)))]>> \o rest

ParseQsl(query) == QslOfFields(SplitAll(query, "&"))

\* k.startswith("utm_")
StartsWithUtm(k) == Len(k) >= 1 /\ k[1] = "utm_"

\* [(k, v) for k, v in parse_qsl(parsed.query) if not k.startswith("utm_")]
CleanQuery(query) ==
    SelectSeq(ParseQsl(query), LAMBDA p : ~StartsWithUtm(p.k))

\* "&".join(f"{k}={v}" for k, v in clean_query)
RECURSIVE JoinQuery(_)
JoinQuery(pairs) ==
    IF pairs = <<>> THEN <<>>
    ELSE LET head == pairs[1].k \o <<"=">> \o pairs[1].v
         IN  IF Len(pairs) = 1 THEN head
             ELSE head \o <<"&">> \o JoinQuery(Tail(pairs))

\* urlunparse: an empty query or fragment is left out with its delimiter.
Urlunparse(p) ==
    p.path
    \o (IF p.query = <<>> THEN <<>> ELSE <<"?">> \o p.query)
    \o (IF p.fragment = <<>> THEN <<>> ELSE <<"#">> \o p.fragment)

normalize_url(url) ==
    LET parsed == Urlparse(Lower(url))
    IN  Rstrip(Urlunparse([parsed EXCEPT !.query = JoinQuery(CleanQuery(parsed.query))]),
               "/")

\* hashlib.sha256(...).hexdigest(): an injective digest of the normalized text.
job_id_from_url(url) == [sha256 |-> normalize_url(url)]

(***************************************************************************)
(* normalize_text / matches_job_interest                                   *)
(***************************************************************************)
\* "a": a lower-case letter, "I": an upper-case letter, "!": punctuation.
TextChars == {"a", "I", " ", "!"}

Keywords == {<<"a">>, <<"i">>, <<"a", " ", "i">>}

\* text.lower()
LowerText(s) == [i \in 1..Len(s) |-> IF s[i] = "I" THEN "i" ELSE s[i]]

\* re.sub(r"[^a-z0-9\s\-]", " ", text)
BlankPunctuation(s) ==
    [i \in 1..Len(s) |-> IF s[i] \in {"a", "i", " ", "-"} THEN s[i] ELSE " "]

\* re.sub(r"\s+", " ", text).strip()
RECURSIVE CollapseSpaces(_)
CollapseSpaces(s) ==
    IF s = <<>> THEN <<>>
    ELSE IF s[1] = " " /\ (Len(s) = 1 \/ s[2] = " ") THEN CollapseSpaces(Tail(s))
    ELSE <<s[1]>> \o CollapseSpaces(Tail(s))

Lstrip(s) == IF s # <<>> /\ s[1] = " " THEN Tail(s) ELSE s

normalize_text(s) == Lstrip(CollapseSpaces(BlankPunctuation(LowerText(s))))

\* kw in text
IsSubstring(kw, t) ==
    \E i \in 1..(Len(t) - Len(kw) + 1) : SubSeq(t, i, i + Len(kw) - 1) = kw

\* any(kw in text for kw in keywords)
AnyIn(keywords, t) == \E kw \in keywords : IsSubstring(kw, t)

InitMatch ==
    /\ PipelineIdle
    /\ UrlIdle
    /\ FetchIdle
    /\ ScrapeIdle
    /\ argTitle \in SeqsUpTo(TextChars, MaxTitleLen)
    /\ argText \in SeqsUpTo(TextChars, MaxBodyLen)
    /\ keywords_include \in SUBSET Keywords
    /\ keywords_exclude \in SUBSET {<<"a">>, <<"i">>}
    /\ mainModule \in {"main", "rate_job_posting"}
    /\ job_title = argTitle
    /\ text = argText
    /\ mpc = "normalize"
    /\ mresult = "none"

\* rate_job_posting.py line 156 and web_scapper_hitman.py line 94 import pprint
\* under `if __name__ == '__main__'`: the name is bound in a module only when that
\* module is the one being run.
PprintBound(module) == mainModule = module

\* lines 89-91: both arguments are normalized, then pprint(job_title) is called;
\* pprint is imported only under `if __name__ == '__main__'`.
MatchNormalize ==
    /\ mpc = "normalize"
    /\ text' = normalize_text(text)
    /\ job_title' = normalize_text(job_title)
    /\ IF PprintBound("rate_job_posting")
       THEN mpc' = "include" /\ UNCHANGED mresult
       ELSE mpc' = "done" /\ mresult' = "NameError"
    /\ UNCHANGED <<argTitle, argText, keywords_include, keywords_exclude, mainModule>>
    /\ UNCHANGED <<urlVars, fetchVars, scrapeVars, pipelineVars>>

\* lines 92-94
IncludeMissing ==
    ~AnyIn(keywords_include, text) /\ ~AnyIn(keywords_include, job_title)

MatchInclude ==
    /\ mpc = "include"
    /\ IF IncludeMissing
       THEN mpc' = "done" /\ mresult' = "False"
       ELSE mpc' = "exclude" /\ UNCHANGED mresult
    /\ UNCHANGED <<argTitle, argText, keywords_include, keywords_exclude, mainModule,
                   job_title, text>>
    /\ UNCHANGED <<urlVars, fetchVars, scrapeVars, pipelineVars>>

\* lines 95-97
ExcludeHit == AnyIn(keywords_exclude, text)

MatchExclude ==
    /\ mpc = "exclude"
    /\ mpc' = "done"
    /\ mresult' = IF ExcludeHit THEN "False" ELSE "True"
    /\ UNCHANGED <<argTitle, argText, keywords_include, keywords_exclude, mainModule,
                   job_title, text>>
    /\ UNCHANGED <<urlVars, fetchVars, scrapeVars, pipelineVars>>

NextMatch == MatchNormalize \/ MatchInclude \/ MatchExclude

SpecMatch == InitMatch /\ [][NextMatch]_vars

(***************************************************************************)
(* access_json_api / access_webpage / access_html_webpage                  *)
(*                                                                         *)
(* A session.get goes through the HTTPAdapter mounted with Retry: a        *)
(* network error or a status of status_forcelist is retried while          *)
(* Retry.total lasts, and raises once it is used up.                       *)
(***************************************************************************)
retry_total == 3

status_forcelist == {429, 500, 502, 503, 504}

\* The status codes the servers of the model answer with.
Statuses == {200, 403, 404, 429, 503}

BotWallMarkers == {"captcha", "access denied", "verify you are a human", "unusual traffic"}

HtmlFetchers == {"access_webpage", "access_html_webpage"}

Fetchers == HtmlFetchers \cup {"access_json_api"}

\* The bodies the servers of the model answer with: a listing page, a JSON
\* document with content, the empty JSON object, or a page whose lower-cased text contains the named marker.
Bodies == {"html", "json", "{}"} \cup BotWallMarkers

Responses == [kind : {"response"}, status : Statuses, body : Bodies]

ResultNone == [NoResponse EXCEPT !.kind = "None"]

\* The parsed JSON document of a 200 response.
ResultJson(body) == [NoResponse EXCEPT !.kind = "json", !.status = 200, !.body = body]

IsJson(body) == body \in {"json", "{}"}

Raised(exc) == [NoResponse EXCEPT !.kind = exc]

InitFetch ==
    /\ PipelineIdle
    /\ UrlIdle
    /\ MatchIdle
    /\ ScrapeIdle
    /\ mainModule = "main"
    /\ fetcher \in Fetchers
    /\ fpc = "get1"
    /\ retriesLeft = retry_total
    /\ getCount = 1
    /\ response1 = NoResponse
    /\ response2 = NoResponse
    /\ netError = FALSE
    /\ fresult = NoResponse

\* any(term in content for term in (...)) on the lower-cased body
HasMarker(r) == \E term \in BotWallMarkers : r.body = term

\* The condition of the first branch, as Python evaluates the chained
\* comparison `a == 200 != b`: (a == 200) and (200 != b), where b is a bool and
\* 200 equals neither True (1) nor False (0).
BoolAsInt(b) == IF b THEN 1 ELSE 0

FirstBranch(r) == r.status = 200 /\ 200 # BoolAsInt(HasMarker(r))

\* elif response.status_code in (429, 407, 403, 500, 502, 503, 504)
SecondBranch(r) == r.status \in {429, 407, 403, 500, 502, 503, 504}

\* An exception raised by session.get: access_json_api catches
\* requests.exceptions.RequestException and returns None; the other two
\* fetchers have no handler.
OnException(exc) ==
    /\ netError' = TRUE
    /\ fpc' = "done"
    /\ fresult' = IF fetcher = "access_json_api" THEN ResultNone ELSE Raised(exc)
    /\ UNCHANGED <<fetcher, retriesLeft, getCount, response1, response2>>

\* One attempt of the adapter fails on the network (timeout, connection error).
AttemptNetworkError ==
    /\ fpc \in {"get1", "get2"}
    /\ IF retriesLeft > 0
       THEN /\ retriesLeft' = retriesLeft - 1
            /\ UNCHANGED <<fetcher, fpc, getCount, response1, response2, netError, fresult>>
       ELSE OnException("ConnectionError")
    /\ UNCHANGED <<urlVars, matchVars, scrapeVars, pipelineVars>>

\* One attempt of the adapter is answered with a status of status_forcelist.
AttemptRetryStatus ==
    /\ fpc \in {"get1", "get2"}
    /\ \E st \in Statuses \cap status_forcelist :
         IF retriesLeft > 0
         THEN /\ retriesLeft' = retriesLeft - 1
              /\ UNCHANGED <<fetcher, fpc, getCount, response1, response2, netError, fresult>>
         ELSE OnException("RetryError")
    /\ UNCHANGED <<urlVars, matchVars, scrapeVars, pipelineVars>>

\* access_json_api, lines 81-95: the response arrives; a non-200 response gives
\* None, otherwise response.json() (a body that is no JSON raises
\* requests' JSONDecodeError, a RequestException, which gives None).
JsonApiResponse ==
    /\ fetcher = "access_json_api"
    /\ fpc = "get1"
    /\ \E r \in Responses :
         /\ r.status \notin status_forcelist
         /\ response1' = r
         /\ fresult' = IF r.status # 200 \/ ~IsJson(r.body) THEN ResultNone ELSE ResultJson(r.body)
    /\ fpc' = "done"
    /\ UNCHANGED <<fetcher, retriesLeft, getCount, response2, netError>>
    /\ UNCHANGED <<urlVars, matchVars, scrapeVars, pipelineVars>>

\* access_webpage lines 61-91, access_html_webpage lines 146-176: the first
\* response arrives and is classified.
HtmlFirstResponse ==
    /\ fetcher \in HtmlFetchers
    /\ fpc = "get1"
    /\ \E r \in Responses :
         /\ r.status \notin status_forcelist
         /\ response1' = r
         /\ IF FirstBranch(r)
            THEN /\ fpc' = "done"
                 /\ fresult' = r
                 /\ UNCHANGED <<retriesLeft, getCount>>
            ELSE IF SecondBranch(r)
            THEN /\ fpc' = "get2"
                 /\ getCount' = getCount + 1
                 /\ retriesLeft' = retry_total
                 /\ UNCHANGED fresult
            ELSE /\ fpc' = "done"
                 /\ fresult' = ResultNone
                 /\ UNCHANGED <<retriesLeft, getCount>>
    /\ UNCHANGED <<fetcher, response2, netError>>
    /\ UNCHANGED <<urlVars, matchVars, scrapeVars, pipelineVars>>

\* access_webpage lines 82-90, access_html_webpage lines 167-175: the second
\* response arrives and is returned as it is.
HtmlSecondResponse ==
    /\ fetcher \in HtmlFetchers
    /\ fpc = "get2"
    /\ \E r \in Responses :
         /\ r.status \notin status_forcelist
         /\ response2' = r
         /\ fresult' = r
    /\ fpc' = "done"
    /\ UNCHANGED <<fetcher, retriesLeft, getCount, response1, netError>>
    /\ UNCHANGED <<urlVars, matchVars, scrapeVars, pipelineVars>>

NextFetch ==
    \/ AttemptNetworkError
    \/ AttemptRetryStatus
    \/ JsonApiResponse
    \/ HtmlFirstResponse
    \/ HtmlSecondResponse

SpecFetch == InitFetch /\ [][NextFetch]_vars

(***************************************************************************)
(* Identity harness: url2 is derived from url1 by one variation the        *)
(* identifier is meant to ignore, then both ids are computed.              *)
(***************************************************************************)
\* url with "/" put at the end of its path (in front of "?" or "#" if any).
WithPathSlash(u) ==
    LET iq == IndexOf(u, "?")
        ih == IndexOf(u, "#")
        i  == IF ih = 0 THEN iq
              ELSE IF iq = 0 THEN ih
              ELSE IF iq < ih THEN iq ELSE ih
    IN  IF i = 0 THEN u \o <<"/">>
        ELSE SubSeq(u, 1, i - 1) \o <<"/">> \o SubSeq(u, i, Len(u))

\* url with the query parameter utm_a=a appended to its query.
WithUtmParam(u) ==
    LET p == Urlparse(u)
        q == IF IndexOf(SplitFirst(u, "#")[1], "?") = 0
             THEN <<"utm_", "a", "=", "a">>
             ELSE p.query \o <<"&", "utm_", "a", "=", "a">>
    IN  p.path \o <<"?">> \o q
        \o (IF IndexOf(u, "#") = 0 THEN <<>> ELSE <<"#">> \o p.fragment)

\* Every URL that differs from u only in the case of its letters.
CaseVariants(u) ==
    {[i \in 1..Len(u) |->
        IF LowerChar(u[i]) = "a" THEN (IF m[i] THEN "A" ELSE "a") ELSE u[i]]
     : m \in [1..Len(u) -> BOOLEAN]}

InitUrl ==
    /\ mainModule = "main"
    /\ PipelineIdle
    /\ MatchIdle
    /\ FetchIdle
    /\ ScrapeIdle
    /\ url1 \in Urls
    /\ url2 = url1
    /\ variation = "none"
    /\ id1 = NoId
    /\ id2 = NoId

VaryCase ==
    /\ variation = "none"
    /\ \E v \in CaseVariants(url1) : v # url1 /\ url2' = v
    /\ variation' = "case"
    /\ UNCHANGED <<url1, id1, id2, matchVars, fetchVars, scrapeVars, pipelineVars>>

VaryTrailingSlash ==
    /\ variation = "none"
    /\ url2' = WithPathSlash(url1)
    /\ variation' = "slash"
    /\ UNCHANGED <<url1, id1, id2, matchVars, fetchVars, scrapeVars, pipelineVars>>

VaryUtm ==
    /\ variation = "none"
    /\ url2' = WithUtmParam(url1)
    /\ variation' = "utm"
    /\ UNCHANGED <<url1, id1, id2, matchVars, fetchVars, scrapeVars, pipelineVars>>

\* The caller passes the normalized URL on: normalize_url(url) is the argument
\* of the second call.
VaryNormalized ==
    /\ variation = "none"
    /\ url2' = normalize_url(url1)
    /\ variation' = "normalized"
    /\ UNCHANGED <<url1, id1, id2, matchVars, fetchVars, scrapeVars, pipelineVars>>

ComputeIds ==
    /\ variation \in {"case", "slash", "utm", "normalized"}
    /\ id1 = NoId
    /\ id1' = job_id_from_url(url1)
    /\ id2' = job_id_from_url(url2)
    /\ UNCHANGED <<url1, url2, variation, matchVars, fetchVars, scrapeVars, pipelineVars>>

NextUrl == VaryCase \/ VaryTrailingSlash \/ VaryUtm \/ VaryNormalized \/ ComputeIds

SpecUrl == InitUrl /\ [][NextUrl]_vars

(***************************************************************************)
(* The scrapers: scrape_gamejobs, scrape_hitmarker_jobs,                   *)
(* scrape_linkedin_jobs.                                                   *)
(*                                                                         *)
(* An href is a token sequence; "kw" is a title keyword and "-at-" the     *)
(* marker of a job slug, one token each.  URLs are written without their   *)
(* scheme: "a" in front of the first "/" is the host.                      *)
(***************************************************************************)
Scrapers == {"scrape_gamejobs", "scrape_hitmarker_jobs", "scrape_linkedin_jobs"}

\* The hrefs of the anchors a GameJobs page can hold: three spellings of one
\* job, another job, a job whose slug has no keyword, a link that is no job, and
\* a job whose slug has the keyword in the company part only.
GameHrefs ==
    { <<"/", "kw", "-at-", "a">>,
      <<"/", "kw", "-at-", "A">>,
      <<"/", "kw", "-at-", "a", "a">>,
      <<"/", "a", "-at-", "a">>,
      <<"/", "kw">>,
      <<"/", "a", "-at-", "kw">> }

\* The visible text of the anchor with this href: the job title, which is the
\* part of the slug in front of "-at-".
AnchorText(href) ==
    LET at == IndexOf(href, "-at-")
    IN  IF at = 0 THEN Tail(href) ELSE SubSeq(href, 2, at - 1)

\* The link element of a card has no href attribute.
NoHref == <<"KeyError">>

\* The cards a LinkedIn page can hold: the href of the card's link, and whether
\* the card has its h3, h4 and a elements.
LinkedinCards ==
    { [href |-> <<"a", "/", "a", "?", "a", "=", "a">>, complete |-> TRUE],
      [href |-> <<"a", "/", "a", "a">>, complete |-> TRUE],
      [href |-> <<"a", "/", "a">>, complete |-> FALSE],
      [href |-> NoHref, complete |-> TRUE] }

job_title_keywords == {"kw"}

\* scrape_gamejobs's default limit
DefaultLimit == 200

Limits == {0, 1, DefaultLimit}

\* Tokens that are word characters for \b.
WordTokens == {"a", "A", "kw", "utm_"}

\* job_href_re = ^/[^?#]*-at-[^?#]+ , matched at the start of href
JobHrefMatch(href) ==
    /\ Len(href) >= 1
    /\ href[1] = "/"
    /\ \E i \in 2..(Len(href) - 1) :
         /\ href[i] = "-at-"
         /\ \A j \in 2..(i + 1) : href[j] \notin {"?", "#"}

\* any(p.search(href) for p in keyword_patterns), the patterns being \bkw\b
KeywordSearch(href) ==
    \E i \in 1..Len(href) :
        /\ href[i] \in job_title_keywords
        /\ i = 1 \/ href[i - 1] \notin WordTokens
        /\ i = Len(href) \/ href[i + 1] \notin WordTokens

\* urljoin(base_url, href) for an href that is an absolute path: the host of
\* base_url followed by href.
urljoin(href) == <<"a">> \o href

\* href.split("?")[0]
BeforeQuery(href) == SplitFirst(href, "?")[1]

\* The exit of the Playwright block leaves the browser as it was.
PlaywrightExit_LeavesOpen(b) == b

\* Leaving `with sync_playwright() as p` (line 191) stops the Playwright driver,
\* and with it the browser the driver launched.
PlaywrightExit(b) == "closed"

\* browser.close() (line 255)
BrowserClose(b) == "closed"

\* The accepted id is not recorded.
AddSeen_Forgets(seen, job_id) == seen

\* job_ids_used.add(job_id)
AddSeen(seen, job_id) == seen \cup {job_id}

\* The value of the set object ref names: the default of the scraper's
\* job_ids_used parameter, or the caller's set.  scrape_linkedin_jobs has no such
\* parameter: the known ids stay with its caller.
SeenOf(ref) ==
    IF ref = "default"
    THEN (IF site = "scrape_gamejobs" THEN gamejobsDefault ELSE hitmarkerDefault)
    ELSE callerSeen

\* The value of job_ids_used in the call in progress.
Seen == SeenOf(seenRef)

\* The ids of the jobs in a list.
IdsOf(js) == {js[i].job_id : i \in 1..Len(js)}

\* What the caller knows before the first call: nothing, or the first listed job.
InitialSeen ==
    {{}} \cup
    (IF site = "scrape_gamejobs"
     THEN {{job_id_from_url(urljoin(<<"/", "kw", "-at-", "a">>))}}
     ELSE IF site = "scrape_linkedin_jobs"
     THEN {{job_id_from_url(<<"a", "/", "a">>)}}
     ELSE {})

InitScrape ==
    /\ PipelineIdle
    /\ UrlIdle
    /\ MatchIdle
    /\ FetchIdle
    /\ site \in Scrapers
    /\ mainModule \in (IF site = "scrape_hitmarker_jobs"
                       THEN {"main", "web_scapper_hitman"} ELSE {"main"})
    /\ listing \in (IF site = "scrape_gamejobs" THEN SeqsUpTo(GameHrefs, MaxListing)
                    ELSE IF site = "scrape_linkedin_jobs"
                    THEN SeqsUpTo(LinkedinCards, MaxListing)
                    ELSE {<<>>})
    /\ callerSeen \in InitialSeen
    /\ gamejobsDefault = {}
    /\ hitmarkerDefault = {}
    /\ callNo = "none"
    /\ spc = "idle"
    /\ seenRef = "none"
    /\ limit = 0
    /\ pages = 0
    /\ page = 0
    /\ idx = 0
    /\ jobs = <<>>
    /\ seenAtStart = {}
    /\ requested = 0
    /\ fetchFailed = FALSE
    /\ slept = FALSE
    /\ unslept = FALSE
    /\ browser = "none"
    /\ waited = "none"
    /\ prev = NoCall

\* A call can start when none is in progress and fewer than two were made.
CanCall(s) ==
    /\ site = s
    /\ \/ callNo = "none"
       \/ callNo = "first" /\ spc \in {"returned", "raised"}

\* The bookkeeping every call starts with.
StartCall(ref, at) ==
    /\ callNo' = IF callNo = "none" THEN "first" ELSE "second"
    /\ prev' = IF callNo = "none" THEN NoCall
               ELSE [seenRef |-> seenRef, limit |-> limit, outcome |-> spc,
                     returned |-> IdsOf(jobs)]
    /\ seenRef' = ref
    /\ jobs' = <<>>
    /\ page' = 0
    /\ requested' = 0
    /\ fetchFailed' = FALSE
    /\ slept' = FALSE
    /\ unslept' = FALSE
    /\ waited' = "none"
    /\ spc' = at

\* scrape_gamejobs lines 186-204: the browser is launched and loads the page.
CallGamejobs ==
    /\ CanCall("scrape_gamejobs")
    /\ \E passArg \in BOOLEAN, lim \in Limits :
         /\ StartCall(IF passArg THEN "caller" ELSE "default", "wait")
         /\ seenAtStart' = SeenOf(IF passArg THEN "caller" ELSE "default")
         /\ limit' = lim
    /\ pages' = 0
    /\ idx' = 1
    /\ browser' = "open"
    /\ UNCHANGED <<site, listing, callerSeen, gamejobsDefault, hitmarkerDefault>>
    /\ UNCHANGED <<urlVars, matchVars, fetchVars, pipelineVars>>

\* The set object of this call takes a new value.
SetSeen(new) ==
    IF seenRef = "default"
    THEN IF site = "scrape_gamejobs"
         THEN gamejobsDefault' = new /\ UNCHANGED <<callerSeen, hitmarkerDefault>>
         ELSE hitmarkerDefault' = new /\ UNCHANGED <<callerSeen, gamejobsDefault>>
    ELSE callerSeen' = new /\ UNCHANGED <<gamejobsDefault, hitmarkerDefault>>

\* How page.wait_for_selector can end: the selector appeared, the 15 s timeout
\* passed, or the call raised another exception.
WaitOutcomes == {"appeared", "timeout", "error"}

\* Only the timeout is caught.
WaitReturns_OnlyTimeout(outcome) == outcome # "error"

\* _wait_for_job_list returns normally: `except Exception: pass` (lines 134-135)
\* catches the timeout and every other exception of the wait.
WaitReturns(outcome) == TRUE

\* scrape_gamejobs lines 205-214: _wait_for_job_list(page), then the DOM that is
\* present is read and parsed.
WaitForJobList ==
    /\ site = "scrape_gamejobs"
    /\ spc = "wait"
    /\ \E outcome \in WaitOutcomes :
         /\ waited' = outcome
         /\ IF WaitReturns(outcome)
            THEN spc' = "loop" /\ UNCHANGED browser
            ELSE spc' = "raised" /\ browser' = PlaywrightExit(browser)
    /\ UNCHANGED <<site, listing, callerSeen, gamejobsDefault, hitmarkerDefault, callNo,
                   seenRef, limit, pages, page, idx, jobs, seenAtStart, requested,
                   fetchFailed, prev, slept, unslept>>
    /\ UNCHANGED <<urlVars, matchVars, fetchVars, pipelineVars>>

\* scrape_gamejobs lines 215-253: one anchor of the page.
GamejobsAnchor ==
    /\ site = "scrape_gamejobs"
    /\ spc = "loop"
    /\ idx <= Len(listing)
    /\ LET href    == listing[idx]
           job_url == urljoin(href)
           job_id  == job_id_from_url(job_url)
       IN  IF ~JobHrefMatch(href) \/ ~KeywordSearch(href) \/ job_id \in Seen
           THEN /\ idx' = idx + 1
                /\ UNCHANGED <<callerSeen, gamejobsDefault, hitmarkerDefault, jobs, spc>>
           ELSE /\ SetSeen(AddSeen(Seen, job_id))
                /\ jobs' = Append(jobs, [job_id |-> job_id, url |-> job_url,
                                         title |-> AnchorText(href)])
                /\ IF Len(jobs) + 1 >= limit
                   THEN spc' = "close" /\ UNCHANGED idx
                   ELSE spc' = "loop" /\ idx' = idx + 1
    /\ UNCHANGED <<site, listing, callNo, seenRef, limit, pages, page, seenAtStart,
                   requested, fetchFailed, prev, slept, unslept, browser, waited>>
    /\ UNCHANGED <<urlVars, matchVars, fetchVars, pipelineVars>>

\* scrape_gamejobs lines 255-261: the browser is closed and the rows returned.
GamejobsReturn ==
    /\ site = "scrape_gamejobs"
    /\ spc = "close" \/ (spc = "loop" /\ idx > Len(listing))
    /\ spc' = "returned"
    /\ browser' = BrowserClose(browser)
    /\ UNCHANGED <<site, listing, callerSeen, gamejobsDefault, hitmarkerDefault, callNo,
                   seenRef, limit, pages, page, idx, jobs, seenAtStart, requested,
                   fetchFailed, prev, slept, unslept, waited>>
    /\ UNCHANGED <<urlVars, matchVars, fetchVars, pipelineVars>>

\* scrape_gamejobs lines 191-253: the browser, page.content, the parse or the
\* reading of an anchor raises.  The exception leaves the
\* `with sync_playwright()` block, whose exit stops Playwright; line 255 is not
\* reached.
GamejobsRaise ==
    /\ site = "scrape_gamejobs"
    /\ spc = "loop"
    /\ spc' = "raised"
    /\ browser' = PlaywrightExit(browser)
    /\ UNCHANGED <<site, listing, callerSeen, gamejobsDefault, hitmarkerDefault, callNo,
                   seenRef, limit, pages, page, idx, jobs, seenAtStart, requested,
                   fetchFailed, prev, slept, unslept, waited>>
    /\ UNCHANGED <<urlVars, matchVars, fetchVars, pipelineVars>>

\* What access_json_api can end with: None, or the parsed document.
AccessJsonApiResults == {ResultNone} \cup {ResultJson(b) : b \in {"json", "{}"}}

\* What access_webpage can end with: the first response when the first branch
\* takes it, any second response, None, or an exception of session.get.
AccessWebpageResults ==
    LET delivered == {r \in Responses : r.status \notin status_forcelist}
    IN  {r \in delivered : FirstBranch(r)}
        \cup (IF \E r \in delivered : ~FirstBranch(r) /\ SecondBranch(r)
              THEN delivered ELSE {})
        \cup (IF \E r \in delivered : ~FirstBranch(r) /\ ~SecondBranch(r)
              THEN {ResultNone} ELSE {})
        \cup {Raised("ConnectionError"), Raised("RetryError")}

\* scrape_hitmarker_jobs line 33
CallHitmarker ==
    /\ CanCall("scrape_hitmarker_jobs")
    /\ \E passArg \in BOOLEAN :
         /\ StartCall(IF passArg THEN "caller" ELSE "default", "loop")
         /\ seenAtStart' = SeenOf(IF passArg THEN "caller" ELSE "default")
    /\ pages' \in 0..MaxPages
    /\ limit' = 0
    /\ idx' = 0
    /\ UNCHANGED <<site, listing, callerSeen, gamejobsDefault, hitmarkerDefault, browser>>
    /\ UNCHANGED <<urlVars, matchVars, fetchVars, pipelineVars>>

\* scrape_hitmarker_jobs lines 35-56: one page.  access_json_api returns None or
\* the parsed document; pprint(response) needs the name pprint; `not response`
\* holds for None and for an empty document, and any other document has no
\* status_code attribute.  Lines 58-87 are reached by no result of
\* access_json_api.
HitmarkerPage ==
    /\ site = "scrape_hitmarker_jobs"
    /\ spc = "loop"
    /\ page < pages
    /\ requested' = requested + 1
    /\ unslept' = (unslept \/ (requested > 0 /\ ~slept))
    /\ slept' = FALSE                \* lines 85-87 are not reached
    /\ \E r \in AccessJsonApiResults :
         /\ fetchFailed' = (fetchFailed \/ r = ResultNone)
         /\ IF ~PprintBound("web_scapper_hitman")
            THEN spc' = "raised"      \* NameError
            ELSE IF r = ResultNone \/ r.body = "{}"
            THEN spc' = "close"       \* break
            ELSE spc' = "raised"      \* AttributeError
    /\ UNCHANGED <<site, listing, callerSeen, gamejobsDefault, hitmarkerDefault, callNo,
                   seenRef, limit, pages, page, idx, jobs, seenAtStart, prev, browser, waited>>
    /\ UNCHANGED <<urlVars, matchVars, fetchVars, pipelineVars>>

\* scrape_hitmarker_jobs lines 89-90
HitmarkerReturn ==
    /\ site = "scrape_hitmarker_jobs"
    /\ spc = "close" \/ (spc = "loop" /\ page >= pages)
    /\ spc' = "returned"
    /\ UNCHANGED <<site, listing, callerSeen, gamejobsDefault, hitmarkerDefault, callNo,
                   seenRef, limit, pages, page, idx, jobs, seenAtStart, requested,
                   fetchFailed, prev, slept, unslept, browser, waited>>
    /\ UNCHANGED <<urlVars, matchVars, fetchVars, pipelineVars>>

\* scrape_linkedin_jobs lines 127-131.  Before a second call the caller has
\* recorded the postings of the first one (main.py lines 44-63).
CallLinkedin ==
    /\ CanCall("scrape_linkedin_jobs")
    /\ StartCall("none", "loop")
    /\ callerSeen' = callerSeen \cup IdsOf(jobs)
    /\ seenAtStart' = callerSeen \cup IdsOf(jobs)
    /\ pages' \in 0..MaxPages
    /\ limit' = 0
    /\ idx' = 0
    /\ UNCHANGED <<site, listing, gamejobsDefault, hitmarkerDefault, browser>>
    /\ UNCHANGED <<urlVars, matchVars, fetchVars, pipelineVars>>

\* BeautifulSoup(response.text).select("li"): the cards of a listing page; a
\* page that is not a listing has none.
CardsOf(r) == IF r.body = "html" THEN listing ELSE <<>>

\* `not response`: None, or a Response whose status is an error status.
NotResponse(r) == r = ResultNone \/ r.status >= 400

\* link_el["href"] (line 170) raises KeyError for a link element without href:
\* the index of the first card that does so, 0 when there is none.
RECURSIVE FirstKeyError(_, _)
FirstKeyError(cards, i) ==
    IF i > Len(cards) THEN 0
    ELSE IF cards[i].complete /\ cards[i].href = NoHref THEN i
    ELSE FirstKeyError(cards, i + 1)

\* scrape_linkedin_jobs lines 157-190: the job cards made from the cards of a page.
RECURSIVE CardJobs(_)
CardJobs(cards) ==
    IF cards = <<>> THEN <<>>
    ELSE IF ~cards[1].complete THEN CardJobs(Tail(cards))
    ELSE <<[job_id |-> job_id_from_url(BeforeQuery(cards[1].href)),
            url |-> BeforeQuery(cards[1].href)]>> \o CardJobs(Tail(cards))

\* scrape_linkedin_jobs lines 187-190: time.sleep is the last statement of the
\* body of the card loop, behind the `continue` of line 164: it runs once for
\* each card that was appended, and not at all for a page with no such card.
SleepAfterCards(cards) == CardJobs(cards) # <<>>

\* scrape_linkedin_jobs lines 132-190: one page.
LinkedinPage ==
    /\ site = "scrape_linkedin_jobs"
    /\ spc = "loop"
    /\ page < pages
    /\ requested' = requested + 1
    /\ unslept' = (unslept \/ (requested > 0 /\ ~slept))
    /\ \E r \in AccessWebpageResults :
         IF r.kind \notin {"None", "response"}
         THEN /\ spc' = "raised"
              /\ fetchFailed' = TRUE
              /\ slept' = FALSE
              /\ UNCHANGED <<page, jobs>>
         ELSE IF NotResponse(r)
         THEN /\ page' = page + 1        \* continue
              /\ fetchFailed' = TRUE
              /\ slept' = FALSE
              /\ UNCHANGED <<spc, jobs>>
         ELSE IF CardsOf(r) = <<>>
         THEN /\ spc' = "close"          \* break
              /\ slept' = FALSE
              /\ UNCHANGED <<page, jobs, fetchFailed>>
         ELSE IF FirstKeyError(CardsOf(r), 1) # 0
         THEN LET before == SubSeq(CardsOf(r), 1, FirstKeyError(CardsOf(r), 1) - 1)
              IN  /\ spc' = "raised"      \* KeyError
                  /\ jobs' = jobs \o CardJobs(before)
                  /\ slept' = SleepAfterCards(before)
                  /\ UNCHANGED <<page, fetchFailed>>
         ELSE /\ jobs' = jobs \o CardJobs(CardsOf(r))
              /\ slept' = SleepAfterCards(CardsOf(r))
              /\ page' = page + 1
              /\ UNCHANGED <<spc, fetchFailed>>
    /\ UNCHANGED <<site, listing, callerSeen, gamejobsDefault, hitmarkerDefault, callNo,
                   seenRef, limit, pages, idx, seenAtStart, prev, browser, waited>>
    /\ UNCHANGED <<urlVars, matchVars, fetchVars, pipelineVars>>

\* scrape_linkedin_jobs lines 192-193
LinkedinReturn ==
    /\ site = "scrape_linkedin_jobs"
    /\ spc = "close" \/ (spc = "loop" /\ page >= pages)
    /\ spc' = "returned"
    /\ UNCHANGED <<site, listing, callerSeen, gamejobsDefault, hitmarkerDefault, callNo,
                   seenRef, limit, pages, page, idx, jobs, seenAtStart, requested,
                   fetchFailed, prev, slept, unslept, browser, waited>>
    /\ UNCHANGED <<urlVars, matchVars, fetchVars, pipelineVars>>

NextScrape ==
    \/ CallGamejobs
    \/ WaitForJobList
    \/ GamejobsAnchor
    \/ GamejobsReturn
    \/ GamejobsRaise
    \/ CallHitmarker
    \/ HitmarkerPage
    \/ HitmarkerReturn
    \/ CallLinkedin
    \/ LinkedinPage
    \/ LinkedinReturn

SpecScrape == InitScrape /\ [][NextScrape]_vars

(***************************************************************************)
(* ManuallyEnteredDataUI._send_data_to_google_sheets                       *)
(***************************************************************************)
\* The characters typed into the Link field
LinkChars == {"a", "/", " "}

\* random_alphanumeric(12): one of the strings it can draw
RandomSuffixes == {"r1", "r2"}

\* str.strip()
RECURSIVE Strip(_)
Strip(s) ==
    IF s = <<>> THEN s
    ELSE IF s[1] = " " THEN Strip(Tail(s))
    ELSE IF s[Len(s)] = " " THEN Strip(SubSeq(s, 1, Len(s) - 1))
    ELSE s

\* f"http://example.com/no-link-provided-{random_alphanumeric(12)}"
PlaceholderUrl(suffix) == <<"no-link-provided-", suffix>>

PlaceholderUrls == {PlaceholderUrl(r) : r \in RandomSuffixes}

InitManual ==
    /\ UrlIdle
    /\ MatchIdle
    /\ FetchIdle
    /\ ScrapeIdle
    /\ WalkIdle
    /\ ChunkIdle
    /\ ParseIdle
    /\ RateIdle
    /\ LlmIdle
    /\ SheetIdle
    /\ mainModule = "job_scanner_main_ui"
    /\ google_url_line_edit \in {<<>>, <<" ">>, <<"a">>}
    /\ creds_path \in BOOLEAN
    /\ link_input \in SeqsUpTo(LinkChars, MaxLinkLen)
    /\ formPc = "idle"
    /\ formUrl = <<>>
    /\ formRow = NoRow

\* lines 83-98: the sheet URL or the credentials are missing
SendWarns ==
    /\ formPc = "idle"
    /\ Strip(google_url_line_edit) = <<>> \/ ~creds_path
    /\ formPc' = "warned"
    /\ UNCHANGED <<google_url_line_edit, creds_path, link_input, formUrl, formRow>>
    /\ UNCHANGED notManual

\* lines 100-129: the id is derived and the row is sent
SendRow ==
    /\ formPc = "idle"
    /\ Strip(google_url_line_edit) # <<>>
    /\ creds_path
    /\ \E suffix \in RandomSuffixes :
         LET url == IF Strip(link_input) = <<>> THEN PlaceholderUrl(suffix)
                    ELSE Strip(link_input)
         IN  /\ formUrl' = url
             /\ formRow' = [job_id |-> job_id_from_url(url), link |-> link_input]
    /\ formPc' = "sent"
    /\ UNCHANGED <<google_url_line_edit, creds_path, link_input>>
    /\ UNCHANGED notManual

NextManual == SendWarns \/ SendRow

SpecManual == InitManual /\ [][NextManual]_vars

(***************************************************************************)
(* rate_job_posts                                                          *)
(***************************************************************************)
\* job_lookup_data(1): the job-title keywords
IncludeKeywords == {<<"a">>}

\* job_lookup_data(4): the ignore words
IgnoreWords == {<<"i">>}

\* scrape_job_page returned None
NoPage == <<"None">>

\* access_webpage raised inside scrape_job_page
PageRaises == <<"raises">>

\* The rows pull_google_sheet_data can hand over, with what scrape_job_page
\* gives for their link: None, an exception, or the page's content.
RateJobs ==
    { [jog_title |-> <<"a">>, page |-> NoPage],
      [jog_title |-> <<"a">>, page |-> PageRaises],
      [jog_title |-> <<"!">>, page |-> <<"!">>],
      [jog_title |-> <<"a">>, page |-> <<"a", " ", "I">>],
      [jog_title |-> <<"A">>, page |-> <<"!">>],
      [jog_title |-> <<"!">>, page |-> <<"a">>] }

\* matches_job_interest as a function of its arguments (lines 89-97)
matches_job_interest(jt, tx, include, exclude) ==
    LET t == normalize_text(tx)
        j == normalize_text(jt)
    IN  IF ~PprintBound("rate_job_posting") THEN "NameError"
        ELSE IF ~AnyIn(include, t) /\ ~AnyIn(include, j) THEN "False"
        ELSE IF AnyIn(exclude, t) THEN "False"
        ELSE "True"

\* The filter lets every job through.
FilterRejects_Never(verdict) == FALSE

\* `if not job_matches_text` (line 140)
FilterRejects(verdict) == verdict # "True"

\* google_sheet_data of lines 112-124
NewRow(i) ==
    [job_id |-> i, scraped_failed |-> "No", scraped_success |-> "", no_matching_job_title |-> ""]

InitRate ==
    /\ UrlIdle
    /\ MatchIdle
    /\ FetchIdle
    /\ ScrapeIdle
    /\ WalkIdle
    /\ ChunkIdle
    /\ ParseIdle
    /\ ManualIdle
    /\ LlmIdle
    /\ SheetIdle
    /\ mainModule \in {"main", "rate_job_posting"}
    /\ job_links \in SeqsUpTo(RateJobs, MaxJobs)
    /\ rpc = "loop"
    /\ ridx = 1
    /\ upload_to_google_sheets = <<>>
    /\ ranked = <<>>

\* lines 110-151: one iteration of the for loop
RateJob ==
    /\ rpc = "loop"
    /\ ridx <= Len(job_links)
    /\ LET job     == job_links[ridx]
           verdict == matches_job_interest(job.jog_title, job.page,
                                           IncludeKeywords, IgnoreWords)
       IN  IF job.page = PageRaises
           THEN /\ rpc' = "raised"
                /\ UNCHANGED <<ridx, upload_to_google_sheets, ranked>>
           ELSE IF job.page = NoPage
           THEN \* lines 126-130
                /\ upload_to_google_sheets' =
                       Append(upload_to_google_sheets,
                              [NewRow(ridx) EXCEPT !.scraped_success = "Yes"])
                /\ ridx' = ridx + 1
                /\ UNCHANGED <<rpc, ranked>>
           ELSE IF verdict = "NameError"
           THEN /\ rpc' = "raised"
                /\ UNCHANGED <<ridx, upload_to_google_sheets, ranked>>
           ELSE IF FilterRejects(verdict)
           THEN \* lines 140-144
                /\ upload_to_google_sheets' =
                       Append(upload_to_google_sheets,
                              [NewRow(ridx) EXCEPT !.no_matching_job_title = "Yes"])
                /\ ridx' = ridx + 1
                /\ UNCHANGED <<rpc, ranked>>
           ELSE \* lines 145-151: the ranking stage, then break
                /\ ranked' = Append(ranked, ridx)
                /\ rpc' = "break"
                /\ UNCHANGED <<ridx, upload_to_google_sheets>>
    /\ UNCHANGED job_links
    /\ UNCHANGED notRate

\* line 153: the loop is over and the function ends
RateReturn ==
    /\ rpc = "break" \/ (rpc = "loop" /\ ridx > Len(job_links))
    /\ rpc' = "returned"
    /\ UNCHANGED <<job_links, ridx, upload_to_google_sheets, ranked>>
    /\ UNCHANGED notRate

NextRate == RateJob \/ RateReturn

SpecRate == InitRate /\ [][NextRate]_vars

(***************************************************************************)
(* rate_job_vs_cv / compare_chunk_with_job                                 *)
(***************************************************************************)
\* results[:5]
TopN == 5

\* time.sleep(30)
CooldownSeconds == 30

\* The skill phrases of the model, in sorted order.
SkillNames == <<"s1", "s2">>

\* What the provider does for a chunk's call: it answers with a JSON document,
\* with text that is no JSON, or the call raises RateLimitError or another
\* error of the client.
ChunkOutcomes ==
    { [kind |-> "json", score |-> 5, missing_skills |-> <<"s1">>],
      [kind |-> "json", score |-> 2, missing_skills |-> <<"s2", "s2">>],
      [kind |-> "not_json", score |-> 0, missing_skills |-> <<>>],
      [kind |-> "RateLimitError", score |-> 0, missing_skills |-> <<>>],
      [kind |-> "APIError", score |-> 0, missing_skills |-> <<>>] }

\* r["score"] of a value that has no such key, or that is no dict
NoScoreKey == -1

\* r["missing_skills"] of a value that has no such key, or that is no dict
NoSkillsKey == <<"KeyError">>

\* The reply contents message.content can hold besides a well-formed object:
\* text that is no JSON, None, JSON that is no object, and objects that lack a
\* key.
ReplyOutcomes ==
    { [kind |-> "json", score |-> 5, missing_skills |-> <<"s1">>],
      [kind |-> "not_json", score |-> 0, missing_skills |-> <<>>],
      [kind |-> "None", score |-> 0, missing_skills |-> <<>>],
      [kind |-> "json", score |-> NoScoreKey, missing_skills |-> NoSkillsKey],
      [kind |-> "json", score |-> NoScoreKey, missing_skills |-> <<"s1">>],
      [kind |-> "json", score |-> 2, missing_skills |-> NoSkillsKey] }

\* The call raises out of compare_chunk_with_job: an error of the client other
\* than RateLimitError (lines 129-141), or json.loads(None), whose TypeError is
\* no JSONDecodeError (lines 153-155).
RaisesOut(outcome) == outcome.kind \in {"APIError", "None"}

\* The dict of lines 144-149 and of lines 156-161
ZeroResult(reason) == [score |-> 0, missing_skills |-> <<>>, reason |-> reason]

\* The rate-limited chunk is given a full score.
compare_chunk_with_job_FullScore(outcome) ==
    IF outcome.kind = "RateLimitError"
    THEN [score |-> 5, missing_skills |-> <<>>, reason |-> "Quota exhausted"]
    ELSE IF outcome.kind = "not_json" THEN ZeroResult("Invalid LLM response")
    ELSE [score |-> outcome.score, missing_skills |-> outcome.missing_skills,
          reason |-> "llm"]

\* compare_chunk_with_job: the dict it returns for a call that does not raise out
\* of it
compare_chunk_with_job(outcome) ==
    IF outcome.kind = "RateLimitError" THEN ZeroResult("Quota exhausted")
    ELSE IF outcome.kind = "not_json" THEN ZeroResult("Invalid LLM response")
    ELSE [score |-> outcome.score, missing_skills |-> outcome.missing_skills,
          reason |-> "llm"]

\* list.sort(key=score, reverse=True) is stable: r goes behind every element
\* whose score is at least its own.
RECURSIVE InsertByScore(_, _)
InsertByScore(sorted, r) ==
    IF sorted = <<>> THEN <<r>>
    ELSE IF sorted[1].score >= r.score
    THEN <<sorted[1]>> \o InsertByScore(Tail(sorted), r)
    ELSE <<r>> \o sorted

RECURSIVE SortByScore(_)
SortByScore(rs) ==
    IF rs = <<>> THEN <<>>
    ELSE InsertByScore(SortByScore(SubSeq(rs, 1, Len(rs) - 1)), rs[Len(rs)])

\* results[:5]
TopResults(rs) == SubSeq(rs, 1, IF Len(rs) < TopN THEN Len(rs) ELSE TopN)

RECURSIVE SumScores(_)
SumScores(rs) == IF rs = <<>> THEN 0 ELSE rs[1].score + SumScores(Tail(rs))

\* round(sum / max(len, 1), 2), in hundredths
AvgScore(rs) ==
    LET n == IF Len(rs) > 1 THEN Len(rs) ELSE 1
    IN  (2 * 100 * SumScores(rs) + n) \div (2 * n)

\* set(skill for r in rs for skill in r["missing_skills"])
SkillSet(rs) ==
    UNION { {rs[i].missing_skills[k] : k \in 1..Len(rs[i].missing_skills)} :
            i \in 1..Len(rs) }

\* sorted(a set of skills)
RECURSIVE SortedSkills(_, _)
SortedSkills(S, i) ==
    IF i > Len(SkillNames) THEN <<>>
    ELSE (IF SkillNames[i] \in S THEN <<SkillNames[i]>> ELSE <<>>)
         \o SortedSkills(S, i + 1)

InitLlm ==
    /\ UrlIdle
    /\ MatchIdle
    /\ FetchIdle
    /\ ScrapeIdle
    /\ WalkIdle
    /\ ChunkIdle
    /\ ParseIdle
    /\ ManualIdle
    /\ RateIdle
    /\ SheetIdle
    /\ mainModule = "main"
    /\ cv_chunks \in SeqsUpTo(ChunkOutcomes, MaxChunks)
    /\ lpc = "loop"
    /\ results = <<>>
    /\ llm_calls = 0
    /\ cooldown = 0
    /\ llm_result_dict = NoDict

\* lines 89-91: one chunk; compare_chunk_with_job lines 127-162
LlmChunk ==
    /\ lpc = "loop"
    /\ Len(results) < Len(cv_chunks)
    /\ LET outcome == cv_chunks[Len(results) + 1]
       IN  /\ llm_calls' = llm_calls + 1
           /\ cooldown' = IF outcome.kind = "RateLimitError"
                          THEN cooldown + CooldownSeconds ELSE cooldown
           /\ IF RaisesOut(outcome)
              THEN lpc' = "raised" /\ UNCHANGED results
              ELSE /\ results' = Append(results, compare_chunk_with_job(outcome))
                   /\ UNCHANGED lpc
    /\ UNCHANGED <<cv_chunks, llm_result_dict>>
    /\ UNCHANGED notLlm

\* The sort key r["score"] (line 94) raises for some result.
SortRaises(rs) == \E i \in 1..Len(rs) : rs[i].score = NoScoreKey

\* r["missing_skills"] (line 105) raises for some of the top results.
SkillsRaise(top) == \E i \in 1..Len(top) : top[i].missing_skills = NoSkillsKey

\* lines 93-113
LlmAggregate ==
    /\ lpc = "loop"
    /\ Len(results) = Len(cv_chunks)
    /\ IF SortRaises(results)
       THEN lpc' = "raised" /\ UNCHANGED <<results, llm_result_dict>>
       ELSE LET top_results == TopResults(SortByScore(results))
            IN  /\ results' = SortByScore(results)
                /\ IF SkillsRaise(top_results)
                   THEN lpc' = "raised" /\ UNCHANGED llm_result_dict
                   ELSE /\ lpc' = "returned"
                        /\ llm_result_dict' =
                              [rating_vs_cv |-> AvgScore(top_results),
                               top_matches |-> top_results,
                               missing_skills |-> SortedSkills(SkillSet(top_results), 1)]
    /\ UNCHANGED <<cv_chunks, llm_calls, cooldown>>
    /\ UNCHANGED notLlm

NextLlm == LlmChunk \/ LlmAggregate

SpecLlm == InitLlm /\ [][NextLlm]_vars

\* rate_job_vs_cv called with chunks for which the provider answers; the reply
\* contents are the ones of ReplyOutcomes.
InitReply ==
    /\ UrlIdle
    /\ MatchIdle
    /\ FetchIdle
    /\ ScrapeIdle
    /\ WalkIdle
    /\ ChunkIdle
    /\ ParseIdle
    /\ ManualIdle
    /\ RateIdle
    /\ SheetIdle
    /\ mainModule = "main"
    /\ cv_chunks \in SeqsUpTo(ReplyOutcomes, MaxReplies)
    /\ lpc = "loop"
    /\ results = <<>>
    /\ llm_calls = 0
    /\ cooldown = 0
    /\ llm_result_dict = NoDict

SpecReply == InitReply /\ [][NextLlm]_vars

(***************************************************************************)
(* pull_google_sheet_data / update_google_sheet                            *)
(***************************************************************************)
\* What a Processed cell can hold.  A blank row has an empty cell.
ProcessedCells ==
    { <<"N", "o">>, <<"Y", "e", "s">>, <<" ", "y", "e", "s", " ">>, <<"Y", "E", "S">>,
      <<>> }

\* What the scrapers write into the Processed column (main.py line 53)
WrittenCells == {<<"N", "o">>}

\* str.lower() on the letters of a Processed cell
LowerCell(s) ==
    [i \in 1..Len(s) |->
        IF s[i] = "Y" THEN "y" ELSE IF s[i] = "E" THEN "e" ELSE IF s[i] = "S" THEN "s"
        ELSE IF s[i] = "N" THEN "n" ELSE s[i]]

\* row.get("Processed", "").strip().lower() != "yes"  (line 35)
NotProcessed(row) == LowerCell(Strip(row.Processed)) # <<"y", "e", "s">>

\* The cell is left as it was.
update_cell_Skips(rows, row_idx) == rows

\* sheet.update_cell(idx, column of Processed, "Yes"): the row index counts the
\* rows of the sheet from 1, the header row included.
update_cell(rows, row_idx) == [rows EXCEPT ![row_idx - 1].Processed = <<"Y", "e", "s">>]

\* lines 34-49: the for loop over enumerate(all_data, start=2) from position i
\* on; all_data holds the records as get_all_records read them.  The request of
\* update_cell for record failAt raises (failAt = 0: no request raises).
RECURSIVE PullFrom(_, _, _, _, _)
PullFrom(all_data, i, links, rows, failAt) ==
    IF i > Len(all_data) THEN [html_links |-> links, sheet |-> rows, raised |-> FALSE]
    ELSE IF ~NotProcessed(all_data[i]) THEN PullFrom(all_data, i + 1, links, rows, failAt)
    ELSE IF i = failAt THEN [html_links |-> <<>>, sheet |-> rows, raised |-> TRUE]
    ELSE PullFrom(all_data, i + 1,
                  Append(links, [job_id |-> all_data[i].job_id, row |-> all_data[i].uid]),
                  update_cell(rows, i + 1), failAt)

\* The rows a sheet of n rows can hold, with identities 1..n.
SheetsOf(n) ==
    {[i \in 1..n |-> [uid |-> i, job_id |-> i, Processed |-> cells[i]]] :
        cells \in [1..n -> ProcessedCells]}

InitSheet ==
    /\ UrlIdle
    /\ MatchIdle
    /\ FetchIdle
    /\ ScrapeIdle
    /\ WalkIdle
    /\ ChunkIdle
    /\ ParseIdle
    /\ ManualIdle
    /\ RateIdle
    /\ LlmIdle
    /\ mainModule = "main"
    /\ \E n \in 0..2 : sheet \in SheetsOf(n) /\ nextUid = n + 1
    /\ html_links = <<>>
    /\ sheetBefore = <<>>
    /\ pullCount = 0
    /\ pullRaised = FALSE
    /\ rowsWritten = FALSE
    /\ pulledJustBefore = FALSE
    /\ returnedTimes = [u \in 1..(2 * MaxSheetRows) |-> 0]

\* pull_google_sheet_data lines 31-51
PullSheet ==
    /\ pullCount < MaxPulls
    /\ \E failAt \in 0..Len(sheet) :
       LET pulled == PullFrom(sheet, 1, <<>>, sheet, failAt)
       IN  /\ html_links' = pulled.html_links
           /\ pullRaised' = pulled.raised
           /\ sheet' = pulled.sheet
           /\ returnedTimes' =
                 [u \in DOMAIN returnedTimes |->
                    returnedTimes[u]
                    + Cardinality({k \in 1..Len(pulled.html_links) :
                                      pulled.html_links[k].row = u})]
    /\ sheetBefore' = sheet
    /\ pulledJustBefore' = (pullCount > 0 /\ ~pullRaised /\ ~rowsWritten)
    /\ rowsWritten' = FALSE
    /\ pullCount' = pullCount + 1
    /\ UNCHANGED nextUid
    /\ UNCHANGED notSheet

\* update_google_sheet lines 117-121, called by log_google_sheet_data for the
\* postings of a scrape: a blank row goes in under the header, the new rows are
\* appended at the bottom.
LogRows ==
    /\ Len(sheet) + 2 <= MaxSheetRows
    /\ \E cell \in WrittenCells :
         sheet' = <<[uid |-> nextUid, job_id |-> 0, Processed |-> <<>>]>>
                  \o sheet
                  \o <<[uid |-> nextUid + 1, job_id |-> nextUid + 1, Processed |-> cell]>>
    /\ nextUid' = nextUid + 2
    /\ rowsWritten' = TRUE
    /\ UNCHANGED <<html_links, sheetBefore, pullCount, pullRaised, pulledJustBefore,
                   returnedTimes>>
    /\ UNCHANGED notSheet

NextSheet == PullSheet \/ LogRows

SpecSheet == InitSheet /\ [][NextSheet]_vars


(***************************************************************************)
(* turn_llm_result_into_dictionary.  A reply text is a sequence of lexical *)
(* pieces: "p" is prose without braces, "{" and "}" are braces outside any *)
(* string, "k" is the member with the required key, "o" another member     *)
(* with a scalar value, "o:}" another member whose string value holds a    *)
(* "}" character, and "n:" a key and colon that an object value follows.   *)
(* Separating commas are taken as written correctly.  A parsed object is   *)
(* represented by the pieces of the text it was parsed from.               *)
(***************************************************************************)
ReplyPieces == {"p", "{", "}", "k", "o", "o:}", "n:"}

required_keys == {"k"}

\* The return value None, and a returned list of parsed objects.
None == [is_none |-> TRUE, dicts |-> <<>>]

ListOf(dicts) == [is_none |-> FALSE, dicts |-> dicts]

\* The pieces in which the regular expression sees a "}" character.
HoldsCloseBrace(piece) == piece \in {"}", "o:}"}

\* The first index >= i whose piece satisfies the test, 0 when there is none.
RECURSIVE FirstOpen(_, _)
FirstOpen(reply, i) ==
    IF i > Len(reply) THEN 0
    ELSE IF reply[i] = "{" THEN i
    ELSE FirstOpen(reply, i + 1)

RECURSIVE FirstClose(_, _)
FirstClose(reply, i) ==
    IF i > Len(reply) THEN 0
    ELSE IF HoldsCloseBrace(reply[i]) THEN i
    ELSE FirstClose(reply, i + 1)

\* The reply of one match: from the "{" to the first "}" character.  A match
\* that ends inside a string value holds that member cut short.
BlockText(reply, open, close) ==
    IF reply[close] = "}" THEN SubSeq(reply, open, close)
    ELSE SubSeq(reply, open, close - 1) \o <<"cut">>

\* re.findall(r'\{[\s\S]*?\}', reply): leftmost matches, each as short as
\* possible, the scan resuming after the end of the match.
RECURSIVE FindAllFrom(_, _)
FindAllFrom(reply, i) ==
    LET open == FirstOpen(reply, i)
        close == IF open = 0 THEN 0 ELSE FirstClose(reply, open + 1)
    IN  IF open = 0 \/ close = 0 THEN <<>>
        ELSE <<BlockText(reply, open, close)>> \o FindAllFrom(reply, close + 1)

FindAll(reply) == FindAllFrom(reply, 1)

\* json.loads on a block: the index after the object that starts at block[i],
\* 0 when the pieces from i on do not start with a well-formed object.
RECURSIVE ObjectEnd(_, _)
RECURSIVE MembersEnd(_, _)
ObjectEnd(block, i) ==
    IF i > Len(block) \/ block[i] # "{" THEN 0
    ELSE MembersEnd(block, i + 1)

MembersEnd(block, j) ==
    IF j > Len(block) THEN 0
    ELSE IF block[j] = "}" THEN j + 1
    ELSE IF block[j] \in {"k", "o", "o:}"} THEN MembersEnd(block, j + 1)
    ELSE IF block[j] = "n:" THEN
        LET e == ObjectEnd(block, j + 1)
        IN  IF e = 0 THEN 0 ELSE MembersEnd(block, e)
    ELSE 0

\* json.loads(block) raises JSONDecodeError unless the whole block is one
\* object.
JSONDecodeError(block) == ObjectEnd(block, 1) # Len(block) + 1

\* Index j of a parsed object is a member of the object itself, not of an
\* object nested in it.
RECURSIVE DepthAt(_, _)
DepthAt(block, j) ==
    IF j = 1 THEN 0
    ELSE DepthAt(block, j - 1)
            + (IF block[j - 1] = "{" THEN 1 ELSE 0)
            - (IF block[j] = "}" THEN 1 ELSE 0)

\* The keys of a parsed object.
Keys(d) ==
    {IF d[j] = "o:}" THEN "o" ELSE IF d[j] = "n:" THEN "n" ELSE d[j] :
        j \in {x \in 2..(Len(d) - 1) : DepthAt(d, x) = 1 /\ d[x] \notin {"{", "}"}}}

\* What the function returns for the blocks found in the text.
CleanResults(json_blocks) ==
    LET parsed_dicts == SelectSeq(json_blocks, LAMBDA b : ~JSONDecodeError(b))
        clean == SelectSeq(parsed_dicts, LAMBDA d : required_keys \subseteq Keys(d))
    IN  IF parsed_dicts = <<>> THEN None
        ELSE IF clean = <<>> THEN None
        ELSE ListOf(clean)

turn_llm_result_into_dictionary(reply) == CleanResults(FindAll(reply))

InitParse ==
    /\ UrlIdle
    /\ MatchIdle
    /\ FetchIdle
    /\ ScrapeIdle
    /\ WalkIdle
    /\ ChunkIdle
    /\ ManualIdle
    /\ RateIdle
    /\ LlmIdle
    /\ SheetIdle
    /\ mainModule = "main"
    /\ llm_result \in SeqsUpTo(ReplyPieces, MaxReplyLen)
    /\ ppc = "call"
    /\ clean_results = NotReturned

TurnIntoDictionary ==
    /\ ppc = "call"
    /\ clean_results' = turn_llm_result_into_dictionary(llm_result)
    /\ ppc' = "done"
    /\ UNCHANGED <<llm_result, notParse>>

NextParse == TurnIntoDictionary

SpecParse == InitParse /\ [][NextParse]_vars


(***************************************************************************)
(* chunk(text, max_chars, overlap): fixed-window slicing with overlap, as  *)
(* the contract of the document stage describes it.  The windows are       *)
(* scaled down from 100 characters to a few.                               *)
(***************************************************************************)
ResumeChars == {"a", "b", " "}

\* Normalized text: whitespace collapsed to single spaces, none at the ends.
IsNormalized(t) ==
    /\ t = Strip(t)
    /\ \A i \in 1..(Len(t) - 1) : ~(t[i] = " " /\ t[i + 1] = " ")

NormalizedTexts == {t \in SeqsUpTo(ResumeChars, MaxTextLen) : IsNormalized(t)}

\* The overlap in effect: reset to 10% of max_chars when given as negative
\* or as max_chars or more.
EffectiveOverlap(mc, ov) == IF ov < 0 \/ ov >= mc THEN mc \div 10 ELSE ov

\* text[start:start+max_chars] of a text indexed from 0.
Window(t, start, mc) ==
    SubSeq(t, start + 1, IF start + mc < Len(t) THEN start + mc ELSE Len(t))

\* The trim of one slice.
TrimChunk(w) == Strip(w)

\* The loop: slice, trim, advance by max_chars - overlap, stop once the
\* window has reached the end of the text.
RECURSIVE ChunkFrom(_, _, _, _)
ChunkFrom(t, start, mc, ov) ==
    IF start >= Len(t) THEN <<>>
    ELSE <<TrimChunk(Window(t, start, mc))>>
            \o (IF start + mc >= Len(t) THEN <<>>
                ELSE ChunkFrom(t, start + (mc - ov), mc, ov))

chunk(t, mc, ov) == ChunkFrom(t, 0, mc, EffectiveOverlap(mc, ov))

InitChunk ==
    /\ UrlIdle
    /\ MatchIdle
    /\ FetchIdle
    /\ ScrapeIdle
    /\ WalkIdle
    /\ ManualIdle
    /\ RateIdle
    /\ LlmIdle
    /\ SheetIdle
    /\ ParseIdle
    /\ mainModule = "main"
    /\ resume_text \in NormalizedTexts
    /\ max_chars \in 2..MaxWindow
    /\ overlap \in (-1)..MaxWindow
    /\ cpc = "call"
    /\ chunks = <<>>

Chunk ==
    /\ cpc = "call"
    /\ chunks' = chunk(resume_text, max_chars, overlap)
    /\ cpc' = "done"
    /\ UNCHANGED <<resume_text, max_chars, overlap, notChunk>>

NextChunk == Chunk

SpecChunk == InitChunk /\ [][NextChunk]_vars


(***************************************************************************)
(* _extract_list_row_fields: the walk over job_a.next_elements.  An        *)
(* element is a text node ("str"), an anchor that is no job link ("a"),    *)
(* the anchor of another job ("job_a"), another tag whose descendants are  *)
(* the next span elements ("tag"), or a run of StepLimit text nodes with   *)
(* nothing of interest ("run").                                            *)
(***************************************************************************)
\* if steps > 220: break
StepLimit == 220

El(kind, txt, span) == [kind |-> kind, text |-> txt, span |-> span]

WalkElements ==
    { El("str", "plain", 0),        \* a text node
      El("str", "3 days ago", 0),   \* a text node that posted_re matches
      El("a", "name", 0),           \* an anchor with a text
      El("a", "save", 0),           \* an anchor whose text is skipped
      El("job_a", "title", 0),      \* the anchor of the next job
      El("tag", "", 1),             \* a tag around the next element
      El("tag", "", 2),             \* a tag around the next two elements
      El("run", "plain", 0) }       \* StepLimit text nodes in a row

\* The document nodes an element of the model stands for.
NodesOf(el) == IF el.kind = "run" THEN StepLimit ELSE 1

\* posted_re.search on the text of el (el itself for a text node, get_text for
\* a tag, which is the text of all its descendants): the index of the text node
\* the match is found in, 0 when there is no match.
RECURSIVE FirstPostedIn(_, _, _)
FirstPostedIn(els, from, to) ==
    IF from > to \/ from > Len(els) THEN 0
    ELSE IF els[from].kind = "str" /\ els[from].text = "3 days ago" THEN from
    ELSE FirstPostedIn(els, from + 1, to)

PostedMatch(els, i) ==
    IF els[i].kind = "tag" THEN FirstPostedIn(els, i + 1, i + els[i].span)
    ELSE FirstPostedIn(els, i, i)

\* txt.lower() in {"save", "filter", "login", "register"}
SkippedText(txt) == txt \in {"save", "filter", "login", "register"}

InitWalk ==
    /\ UrlIdle
    /\ MatchIdle
    /\ FetchIdle
    /\ ScrapeIdle
    /\ ManualIdle
    /\ RateIdle
    /\ LlmIdle
    /\ SheetIdle
    /\ ParseIdle
    /\ ChunkIdle
    /\ mainModule = "main"
    /\ next_elements \in SeqsUpTo(WalkElements, MaxElements)
    /\ wpc = "walk"
    /\ wi = 1
    /\ steps = 0
    /\ examined = 0
    /\ company = 0
    /\ location = 0
    /\ posted = 0
    /\ stopped = "no"

\* One pass of the loop body (lines 79-121).  A run of text nodes is passed
\* node by node: the bound ends the loop inside it, and no node of it changes
\* a field.
WalkStep ==
    /\ wpc = "walk"
    /\ wi <= Len(next_elements)
    /\ LET el == next_elements[wi]
           found == IF posted # 0 THEN posted ELSE PostedMatch(next_elements, wi)
       IN  IF steps + NodesOf(el) > StepLimit
           THEN /\ steps' = StepLimit + 1
                /\ examined' = StepLimit
                /\ wpc' = "done"
                /\ stopped' = "bound"
                /\ UNCHANGED <<wi, company, location, posted>>
           ELSE /\ steps' = steps + NodesOf(el)
                /\ examined' = examined + NodesOf(el)
                /\ IF el.kind = "job_a"
                   THEN /\ wpc' = "done"
                        /\ stopped' = "next_job"
                        /\ UNCHANGED <<wi, company, location, posted>>
                   ELSE IF el.kind = "a" /\ SkippedText(el.text)
                   THEN /\ wi' = wi + 1
                        /\ UNCHANGED <<wpc, stopped, company, location, posted>>
                   ELSE IF el.kind = "a" /\ company = 0
                   THEN /\ company' = wi
                        /\ wi' = wi + 1
                        /\ UNCHANGED <<wpc, stopped, location, posted>>
                   ELSE IF el.kind = "a" /\ location = 0
                   THEN /\ location' = wi
                        /\ wi' = wi + 1
                        /\ UNCHANGED <<wpc, stopped, company, posted>>
                   ELSE /\ posted' = found
                        /\ IF company # 0 /\ location # 0 /\ found # 0
                           THEN wpc' = "done" /\ stopped' = "all_found" /\ UNCHANGED wi
                           ELSE wi' = wi + 1 /\ UNCHANGED <<wpc, stopped>>
                        /\ UNCHANGED <<company, location>>
    /\ UNCHANGED <<next_elements, notWalk>>

\* next_elements is exhausted: the loop ends and the fields are returned (line 123).
WalkReturn ==
    /\ wpc = "walk"
    /\ wi > Len(next_elements)
    /\ wpc' = "done"
    /\ stopped' = "exhausted"
    /\ UNCHANGED <<next_elements, wi, steps, examined, company, location, posted, notWalk>>

NextWalk == WalkStep \/ WalkReturn

SpecWalk == InitWalk /\ [][NextWalk]_vars


(***************************************************************************)
(* job_ratter: pull_google_sheet_data, then rate_job_posts on what the     *)
(* pull returned.                                                          *)
(***************************************************************************)
\* def rate_job_posts(job_links: list, cv_file_path: str)
rate_job_posts_params == <<"job_links", "cv_file_path">>

\* rate_job_posts(pulled_data, pdf_file_path, json_token_path)
job_ratter_args == <<"pulled_data", "pdf_file_path", "json_token_path">>

\* A call with more positional arguments than the function has parameters
\* raises TypeError before the body runs.
TooManyArguments(args, params) == Len(args) > Len(params)

\* The run of job_ratter is over: the pull raised, or rate_job_posts raised or
\* returned.
RunEnded == pullCount >= 1 /\ (pullRaised \/ rpc \in {"raised", "returned"})

InitRatter ==
    /\ UrlIdle
    /\ MatchIdle
    /\ FetchIdle
    /\ ScrapeIdle
    /\ WalkIdle
    /\ ChunkIdle
    /\ ParseIdle
    /\ ManualIdle
    /\ RateIdle
    /\ LlmIdle
    /\ mainModule = "main"
    /\ \E n \in 0..2 : sheet \in SheetsOf(n) /\ nextUid = n + 1
    /\ html_links = <<>>
    /\ sheetBefore = <<>>
    /\ pullCount = 0
    /\ pullRaised = FALSE
    /\ rowsWritten = FALSE
    /\ pulledJustBefore = FALSE
    /\ returnedTimes = [u \in 1..(2 * MaxSheetRows) |-> 0]

\* job_ratter lines 84-91: the pull of this run, and the pull of the run after.
JobRatterPull ==
    /\ pullCount = 0 \/ RunEnded
    /\ PullSheet

\* job_ratter line 93: the call of rate_job_posts.  With as many arguments as
\* parameters the body would start on the pulled jobs.
JobRatterCall ==
    /\ pullCount = 1
    /\ ~pullRaised
    /\ rpc = "idle"
    /\ IF TooManyArguments(job_ratter_args, rate_job_posts_params)
       THEN /\ rpc' = "raised"       \* TypeError
            /\ UNCHANGED <<job_links, ridx>>
       ELSE /\ job_links' \in [1..Len(html_links) -> RateJobs]
            /\ rpc' = "loop"
            /\ ridx' = 1
    /\ UNCHANGED <<upload_to_google_sheets, ranked>>
    /\ UNCHANGED notRate

NextRatter == JobRatterPull \/ JobRatterCall

SpecRatter == InitRatter /\ [][NextRatter]_vars

(***************************************************************************)
(* Properties.                                                             *)
(***************************************************************************)

\* C1: two URLs that differ only by letter case, by a trailing slash on the
\* path, or by a utm_* query parameter get the same job id.
C1_VariationsYieldSameId == id1 # NoId => id1 = id2

\* C2: a scraper returns no posting whose id was in the seen-set when the call
\* started, and a second call on the same listing against the updated seen-set
\* returns no posting.
C2_DedupMonotonic ==
    spc = "returned" =>
        /\ IdsOf(jobs) \cap seenAtStart = {}
        /\ (callNo = "second" /\ prev.outcome = "returned" /\ prev.seenRef = seenRef)
               => jobs = <<>>

\* No seen-set loses an id in the step, and a step that returns leaves the ids
\* of the returned postings in the set the call was given.
SeenGrowsInStep ==
    site \in {"scrape_gamejobs", "scrape_hitmarker_jobs"} =>
        /\ callerSeen \subseteq callerSeen'
        /\ gamejobsDefault \subseteq gamejobsDefault'
        /\ hitmarkerDefault \subseteq hitmarkerDefault'
        /\ spc' = "returned" => IdsOf(jobs') \subseteq Seen'

\* C3: during a run of scrape_gamejobs or scrape_hitmarker_jobs no step removes
\* an id from a seen-set, and when the scraper returns the set it was given
\* holds the id of every posting it returns.
C3_SeenOnlyGrows ==
    [][SeenGrowsInStep]_vars

\* A run of scrape_gamejobs has returned postings and its seen-set has grown.
C3_Witness ==
    /\ site = "scrape_gamejobs"
    /\ spc = "returned"
    /\ jobs # <<>>
    /\ Seen # seenAtStart
    /\ seenAtStart # {}

\* C4: a call of scrape_gamejobs or scrape_hitmarker_jobs made without a
\* job_ids_used argument starts from an empty seen-set.
C4_NoArgumentStartsEmpty ==
    (spc # "idle" /\ seenRef = "default") => seenAtStart = {}

\* C5: matches_job_interest returns True exactly when an include keyword is in
\* the normalized body or title and no exclude keyword is in the normalized
\* body, and returns False otherwise; it never fails.
C5_MatchesIffIncludedAndNotExcluded ==
    mpc = "done" =>
        mresult =
            IF /\ \/ AnyIn(keywords_include, normalize_text(argText))
                  \/ AnyIn(keywords_include, normalize_text(argTitle))
               /\ ~AnyIn(keywords_exclude, normalize_text(argText))
            THEN "True" ELSE "False"

\* C6: a posting whose title holds an exclude keyword is rejected even though an
\* include keyword matches and the body holds no exclude keyword: the value
\* matches_job_interest returns for it is False.
C6_ExcludeInTitleRejects ==
    ( /\ mpc = "done"
      /\ mresult \in {"True", "False"}
      /\ AnyIn(keywords_exclude, normalize_text(argTitle))
      /\ ~AnyIn(keywords_exclude, normalize_text(argText))
      /\ \/ AnyIn(keywords_include, normalize_text(argText))
         \/ AnyIn(keywords_include, normalize_text(argTitle)) )
    => mresult = "False"

\* status == 200 and no bot-wall marker in the body
Clean(r) == r.kind = "response" /\ r.status = 200 /\ ~HasMarker(r)

\* C7: access_webpage and access_html_webpage return their first response as the
\* result exactly when it is clean.
C7_FirstResponseReturnedIffClean ==
    (fetcher \in HtmlFetchers /\ response1 # NoResponse) =>
        ((response2 = NoResponse /\ fresult = response1) <=> Clean(response1))

\* C8: after a dirty first response exactly one more GET is issued; a second
\* response that is dirty gives None; no response that is not clean is ever
\* returned.  Stated for the first responses that are dirty by their status.
C8_DirtyRetriedOnceNeverReturned ==
    ( /\ fetcher \in HtmlFetchers
      /\ fpc = "done"
      /\ ~netError
      /\ response1 # NoResponse
      /\ response1.status # 200 )
    =>  /\ getCount = 2
        /\ (response2 # NoResponse /\ ~Clean(response2)) => fresult = ResultNone
        /\ fresult.kind = "response" => Clean(fresult)

\* C9: when a session.get raises a network exception the fetcher returns None.
C9_NetworkExceptionGivesNone ==
    (fpc = "done" /\ netError) => fresult = ResultNone

\* C10: a call of scrape_linkedin_jobs or scrape_hitmarker_jobs in which the
\* fetch of a page failed (the fetcher gave None or a blocked response) has, when
\* it returns, requested every page up to the page count.
C10_FailedPageDoesNotStopLoop ==
    ( /\ site \in {"scrape_linkedin_jobs", "scrape_hitmarker_jobs"}
      /\ spc = "returned"
      /\ fetchFailed )
    => requested = pages

\* C11: between two consecutive page fetches of one call of scrape_linkedin_jobs
\* or scrape_hitmarker_jobs a sleep takes place, also after a failed fetch and
\* after a page from which no card was accepted: no page fetch follows the one
\* before it without a sleep in between.
C11_SleepBetweenRequests ==
    site \in {"scrape_linkedin_jobs", "scrape_hitmarker_jobs"} => ~unslept

C13_NoIdForMissingUrl ==
    /\ formPc = "sent" => (Strip(link_input) # <<>> /\ formUrl \notin PlaceholderUrls)
    /\ formRow # NoRow => formRow.job_id \notin {job_id_from_url(u) : u \in PlaceholderUrls}

\* The rows of the output list that belong to job i.
RowsOf(i) ==
    {k \in 1..Len(upload_to_google_sheets) : upload_to_google_sheets[k].job_id = i}

\* C14: a posting reaches the ranking stage of rate_job_posts only if its detail
\* page was scraped and matches_job_interest returned True for it.
C14_RankedOnlyIfScrapedAndMatched ==
    \A k \in 1..Len(ranked) :
        LET job == job_links[ranked[k]]
        IN  /\ job.page \notin {NoPage, PageRaises}
            /\ matches_job_interest(job.jog_title, job.page,
                                    IncludeKeywords, IgnoreWords) = "True"

\* A job reached the ranking stage after another one was rejected by the filter.
C14_Witness ==
    /\ ranked # <<>>
    /\ \E k \in 1..Len(upload_to_google_sheets) :
         upload_to_google_sheets[k].no_matching_job_title = "Yes"

\* C15: a job whose page could not be scraped is emitted as a row whose
\* scraped_failed is "Yes"; the rows of the jobs that were scraped have "No".
C15_FailedScrapeFlagged ==
    \A k \in 1..Len(upload_to_google_sheets) :
        LET row == upload_to_google_sheets[k]
        IN  row.scraped_failed =
               (IF job_links[row.job_id].page = NoPage THEN "Yes" ELSE "No")

\* C16: when rate_job_posts returns, every job of the list has exactly one
\* output row: flagged no_matching_job_title = Yes when the filter rejected it,
\* and a ranked one when it passed.
C16_OneRecordPerJob ==
    rpc = "returned" =>
        \A i \in 1..Len(job_links) :
            /\ Cardinality(RowsOf(i)) = 1
            /\ \A k \in RowsOf(i) :
                 (upload_to_google_sheets[k].no_matching_job_title = "Yes") <=>
                 (/\ job_links[i].page # NoPage
                  /\ matches_job_interest(job_links[i].jog_title, job_links[i].page,
                                          IncludeKeywords, IgnoreWords) = "False")

\* The largest score of a non-empty list of results.
MaxScore(rs) == CHOOSE m \in {rs[i].score : i \in 1..Len(rs)} :
                    \A i \in 1..Len(rs) : rs[i].score <= m

\* C18: for a non-empty list of chunks the rating rate_job_vs_cv returns is the
\* maximum of the per-chunk scores (the rating is held in hundredths).
C18_RatingIsMaxOfChunkScores ==
    (lpc = "returned" /\ cv_chunks # <<>>) =>
        llm_result_dict.rating_vs_cv = 100 * MaxScore(results)

\* C19: the missing_skills rate_job_vs_cv returns has no duplicates and holds
\* every skill that any chunk's result reported missing.
C19_MissingSkillsIsUnionOverAllChunks ==
    lpc = "returned" =>
        LET ms == llm_result_dict.missing_skills
        IN  /\ \A i, k \in 1..Len(ms) : ms[i] = ms[k] => i = k
            /\ {ms[i] : i \in 1..Len(ms)} = SkillSet(results)

\* The rate-limited chunks among the first n.
RateLimited(n) == {i \in 1..n : cv_chunks[i].kind = "RateLimitError"}

\* C20: a rate-limit error costs one 30 s sleep and gives a zero-score result for
\* that chunk; it never ends the batch: the call is then issued for every
\* remaining chunk, once each, and rate_job_vs_cv returns an aggregate.
C20_RateLimitDoesNotAbortBatch ==
    /\ cooldown = CooldownSeconds * Cardinality(RateLimited(llm_calls))
    /\ lpc = "loop" =>
          \A i \in RateLimited(Len(results)) : results[i] = ZeroResult("Quota exhausted")
    /\ lpc = "raised" => cv_chunks[llm_calls].kind = "APIError"
    /\ lpc = "returned" =>
          /\ llm_calls = Len(cv_chunks)
          /\ Len(results) = Len(cv_chunks)
          /\ llm_result_dict # NoDict
          /\ Cardinality({i \in 1..Len(results) : results[i].reason = "Quota exhausted"})
                = Cardinality(RateLimited(Len(cv_chunks)))

\* The first chunk was rate-limited, the calls for two more chunks followed and
\* the aggregate was returned.
C20_Witness ==
    /\ lpc = "returned"
    /\ Len(cv_chunks) = 3
    /\ cv_chunks[1].kind = "RateLimitError"
    /\ llm_calls = 3
    /\ cooldown = CooldownSeconds
    /\ llm_result_dict.rating_vs_cv > 0

\* The rows (by identity) the last pull returned.
ReturnedRows == {html_links[k].row : k \in 1..Len(html_links)}

\* C17: a pull returns exactly the rows whose Processed cell was not "yes"
\* (trimmed, case-insensitive) and leaves Processed = Yes on each of them; over
\* any sequence of pulls a row is returned at most once, and a pull that follows
\* a pull that returned, with no new row in between, returns an empty list.
C17_ProcessedRowsNeverReturnedAgain ==
    /\ \A u \in DOMAIN returnedTimes : returnedTimes[u] <= 1
    /\ (pullCount > 0 /\ ~pullRaised) =>
          /\ ReturnedRows =
                {sheetBefore[i].uid : i \in {j \in 1..Len(sheetBefore) :
                                                LowerCell(Strip(sheetBefore[j].Processed))
                                                    # <<"y", "e", "s">>}}
          /\ Len(html_links) = Cardinality(ReturnedRows)
          /\ rowsWritten \/
                \A i \in 1..Len(sheet) :
                   /\ ~NotProcessed(sheet[i])
                   /\ sheet[i].uid \in ReturnedRows => sheet[i].Processed = <<"Y", "e", "s">>
          /\ pulledJustBefore => html_links = <<>>

\* A second pull, made after new rows were written, returned the new rows while
\* the row returned by the first pull stayed behind.
C17_Witness ==
    /\ pullCount = 2
    /\ html_links # <<>>
    /\ \E u \in DOMAIN returnedTimes : returnedTimes[u] = 1 /\ u \notin ReturnedRows

\* C21: whatever the reply contents are, compare_chunk_with_job returns a dict
\* that has the keys score and missing_skills, and rate_job_vs_cv does not raise.
C21_MalformedReplyDoesNotAbort ==
    /\ lpc # "raised"
    /\ \A i \in 1..Len(results) :
          results[i].score # NoScoreKey /\ results[i].missing_skills # NoSkillsKey

\* The balanced extraction the contract asks for: each match runs
\* from a "{" to the "}" that closes it, braces inside strings not counted.
RECURSIVE MatchingClose(_, _, _)
MatchingClose(reply, i, depth) ==
    IF i > Len(reply) THEN 0
    ELSE IF reply[i] = "{" THEN MatchingClose(reply, i + 1, depth + 1)
    ELSE IF reply[i] = "}" THEN
        IF depth = 1 THEN i ELSE MatchingClose(reply, i + 1, depth - 1)
    ELSE MatchingClose(reply, i + 1, depth)

RECURSIVE FindAllFrom_Balanced(_, _)
FindAllFrom_Balanced(reply, i) ==
    LET open == FirstOpen(reply, i)
        close == IF open = 0 THEN 0 ELSE MatchingClose(reply, open + 1, 1)
    IN  IF open = 0 THEN <<>>
        ELSE IF close = 0 THEN FindAllFrom_Balanced(reply, open + 1)
        ELSE <<SubSeq(reply, open, close)>> \o FindAllFrom_Balanced(reply, close + 1)

FindAll_Balanced(reply) == FindAllFrom_Balanced(reply, 1)

\* C22: for any reply text, turn_llm_result_into_dictionary returns exactly
\* the objects of the balanced-brace substrings of the text (nested objects
\* and a "}" inside a string value included) that parse and hold every
\* required key, and None when there is none.
C22_ExtractsEveryBalancedObject ==
    ppc = "done" => clean_results = CleanResults(FindAll_Balanced(llm_result))

\* Concatenating the chunks with the overlaps removed: the first chunk, then
\* every later chunk without its first ov characters.
RECURSIVE Reconstruct(_, _)
Reconstruct(cs, ov) ==
    IF cs = <<>> THEN <<>>
    ELSE IF Len(cs) = 1 THEN cs[1]
    ELSE Reconstruct(SubSeq(cs, 1, Len(cs) - 1), ov)
            \o SubSeq(cs[Len(cs)], ov + 1, Len(cs[Len(cs)]))

\* C23: for normalized text, chunk returns chunks of at most max_chars
\* characters that, concatenated with the overlaps removed, give the text
\* back (also when a window boundary falls on a space that the trim
\* removes), and no chunk for the empty text.
C23_ChunkRoundTrip ==
    cpc = "done" =>
        /\ \A i \in 1..Len(chunks) : Len(chunks[i]) <= max_chars
        /\ Reconstruct(chunks, EffectiveOverlap(max_chars, overlap)) = resume_text
        /\ (resume_text = <<>> => chunks = <<>>)

\* C24: scrape_gamejobs returns at most limit rows, for every limit, 0 included.
C24_AtMostLimitRows ==
    (site = "scrape_gamejobs" /\ spc = "returned") => Len(jobs) <= limit

\* C25: every row scrape_gamejobs returns has a title in which one of
\* job_title_keywords stands as a whole word.
C25_ReturnedTitlesHoldKeyword ==
    (site = "scrape_gamejobs" /\ spc = "returned") =>
        \A i \in 1..Len(jobs) : KeywordSearch(jobs[i].title)

\* C28: whether the selector appears, the wait times out or the wait raises
\* another exception, _wait_for_job_list returns and scrape_gamejobs goes on to
\* read and parse the DOM that is present.
C28_Step ==
    (site = "scrape_gamejobs" /\ spc = "wait") =>
        (spc' = "loop" /\ idx' = 1 /\ jobs' = <<>> /\ browser' = "open")

C28_WaitIsNotFatal == [][C28_Step]_vars

\* A call whose wait ended with an exception other than the timeout parsed the
\* page and returned a row.
C28_Witness ==
    /\ site = "scrape_gamejobs"
    /\ waited = "error"
    /\ spc = "returned"
    /\ jobs # <<>>

\* C27: no scraper raises on unparseable content: a call that ended with an
\* exception ended so because a request failed, never because of the items or
\* the document it was given.
C27_NoRaiseOnContent ==
    (site \in {"scrape_linkedin_jobs", "scrape_hitmarker_jobs"} /\ spc = "raised")
        => fetchFailed

\* C29: normalize_url is idempotent: normalizing a normalized URL changes
\* nothing, and the normalized URL has the job id of the URL it came from.
C29_NormalizeIdempotent ==
    variation = "normalized" =>
        /\ normalize_url(url2) = url2
        /\ (id1 # NoId => id1 = id2)

\* The index of the first job anchor among the elements, 0 when there is none.
RECURSIVE FirstJobAnchor(_, _)
FirstJobAnchor(els, i) ==
    IF i > Len(els) THEN 0
    ELSE IF els[i].kind = "job_a" THEN i
    ELSE FirstJobAnchor(els, i + 1)

\* C26: the walk examines at most 220 elements, goes on only while company,
\* location and posted are not all found, and takes no field from the next job
\* anchor or from anything after it.
C26_WalkStopsBeforeNextJob ==
    LET next_job == FirstJobAnchor(next_elements, 1)
    IN  /\ examined <= StepLimit
        /\ (wpc = "walk" /\ wi <= Len(next_elements))
               => ~(company # 0 /\ location # 0 /\ posted # 0)
        /\ next_job # 0 =>
               (company < next_job /\ location < next_job /\ posted < next_job)

\* The rows the pull of this run marked: not processed before it, processed after.
MarkedByPull ==
    {i \in 1..Len(sheet) : NotProcessed(sheetBefore[i]) /\ ~NotProcessed(sheet[i])}

\* rate_job_posts made an output row for the job of sheet row i.
HasOutputRow(i) ==
    \E k \in 1..Len(html_links) :
        /\ html_links[k].row = sheet[i].uid
        /\ \E j \in 1..Len(upload_to_google_sheets) :
              upload_to_google_sheets[j].job_id = k

\* C30: when the run of job_ratter has ended, normally or by an exception,
\* every job the pull marked Processed = Yes has an output row; no job is left
\* marked processed without a result.
C30_PulledJobsAccountedFor ==
    (pullCount = 1 /\ RunEnded) => \A i \in MarkedByPull : HasOutputRow(i)

============================================================================
